---- MODULE Spec2Model ----
(***************************************************************************)
(* Verification model of forgeai-rs: the failover router                   *)
(* (crates/forgeai-router), the tool loop and stream collector             *)
(* (crates/forgeai) and the SSE stream state machines of the three         *)
(* provider adapters (the forgeai-adapter crates).                         *)
(*                                                                         *)
(* Several specifications share the module, one per concern, among them:   *)
(*   SpecRouter   - one FailoverRouter::chat / chat_stream call            *)
(*   SpecLoop     - one call of a Client operation (chat, chat_stream,     *)
(*                  chat_with_tools, chat_with_tools_streaming) against an *)
(*                  adapter that may answer anything                       *)
(*   SpecLoopFair - the tool loop alone, every await returning             *)
(*   SpecScript   - the same call against an adapter that replays a fixed  *)
(*                  script of model turns                                  *)
(*   SpecStream, SpecChunks - one adapter chat_stream event stream         *)
(*   SpecFixture  - the adapters' chat and chat_stream over one upstream   *)
(*   SpecCollect  - chat_stream_collect, one poll at a time                *)
(*   SpecPayload  - one Gemini stream payload                              *)
(*   SpecBody     - the Anthropic and Gemini request body builders         *)
(* Each leaves the variables of the other components at their initial      *)
(* value.                                                                  *)
(***************************************************************************)
EXTENDS Integers, Sequences, FiniteSets, TLC

(***************************************************************************)
(* Bounds of the model.                                                    *)
(***************************************************************************)
\* longest adapter list handed to the router
MaxAdapters == 3
\* most items the caller polls from a stream returned by the router
MaxPolls == 2
\* largest max_iterations handed to the tool loop
MaxIterations == 2
\* most tool calls in one model response
MaxToolCalls == 2
\* most items in one event stream handed to the stream collector
MaxEvents == 3
\* most lines in an upstream SSE body
MaxLines == 3
\* most text parts in one upstream answer
MaxParts == 2
\* most messages in a request handed to a request body builder
MaxMessages == 3

(***************************************************************************)
(* forgeai-core: the closed error taxonomy (ForgeError).                   *)
(***************************************************************************)
NoMsg == ""

Msgs == {"m1", "m2"}

Validation(m) == [kind |-> "Validation", msg |-> m]

Authentication == [kind |-> "Authentication", msg |-> NoMsg]

RateLimited == [kind |-> "RateLimited", msg |-> NoMsg]

Provider(m) == [kind |-> "Provider", msg |-> m]

Transport(m) == [kind |-> "Transport", msg |-> m]

Internal(m) == [kind |-> "Internal", msg |-> m]

ForgeError ==
    {Authentication, RateLimited}
        \cup {Validation(m) : m \in Msgs}
        \cup {Provider(m) : m \in Msgs}
        \cup {Transport(m) : m \in Msgs}
        \cup {Internal(m) : m \in Msgs}

\* Result<T, ForgeError>
Ok(v) == [ok |-> TRUE, val |-> v]

Err(e) == [ok |-> FALSE, err |-> e]

\* Option<T>
None == [some |-> FALSE]

Some(v) == [some |-> TRUE, val |-> v]

Min(a, b) == IF a < b THEN a ELSE b

\* s is a prefix of r
IsPrefix(s, r) == Len(s) <= Len(r) /\ s = SubSeq(r, 1, Len(s))

RECURSIVE Concat(_)
\* the text spelled by a sequence of symbols
Concat(text) == IF text = <<>> THEN "" ELSE Head(text) \o Concat(Tail(text))

(***************************************************************************)
(* serde_json::Value, tagged by its variant.  An object is a function from *)
(* its keys.                                                               *)
(***************************************************************************)
JNull == [t |-> "null"]

JStr(s) == [t |-> "str", v |-> s]

JNum(n) == [t |-> "num", v |-> n]

JArr(items) == [t |-> "arr", v |-> items]

JObj(fields) == [t |-> "obj", v |-> fields]

\* Value::get on a value, and chained on an Option (and_then(|v| v.get(k)))
Get(j, k) == IF j.t = "obj" /\ k \in DOMAIN j.v THEN Some(j.v[k]) ELSE None

GetIn(o, k) == IF o.some THEN Get(o.val, k) ELSE None

\* and_then(Value::as_str), and_then(Value::as_array), and_then(Value::as_u64)
AsStr(o) == IF o.some /\ o.val.t = "str" THEN Some(o.val.v) ELSE None

AsArray(o) == IF o.some /\ o.val.t = "arr" THEN Some(o.val.v) ELSE None

AsU64(o) ==
    IF o.some /\ o.val.t = "num" /\ o.val.v >= 0 THEN Some(o.val.v) ELSE None

UnwrapOr(o, d) == IF o.some THEN o.val ELSE d

RECURSIVE JsonText(_), FieldsText(_, _), ItemsText(_)
\* Value::to_string: the JSON text of a value; the keys of an object come in
\* the order of the map (sorted)
JsonText(j) ==
    CASE j.t = "null" -> "null"
      [] j.t = "str" -> "'" \o j.v \o "'"
      [] j.t = "num" -> ToString(j.v)
      [] j.t = "arr" -> "[" \o ItemsText(j.v) \o "]"
      [] j.t = "obj" -> "{" \o FieldsText(j.v, DOMAIN j.v) \o "}"

FieldsText(fields, keys) ==
    IF keys = {} THEN ""
    ELSE LET k == CHOOSE x \in keys : TRUE IN
         k \o ":" \o JsonText(fields[k])
           \o (IF keys = {k} THEN "" ELSE ",")
           \o FieldsText(fields, keys \ {k})

ItemsText(items) ==
    IF items = <<>> THEN ""
    ELSE JsonText(Head(items))
           \o (IF Len(items) = 1 THEN "" ELSE ",")
           \o ItemsText(Tail(items))

(***************************************************************************)
(* forgeai-core: StreamEvent.                                              *)
(***************************************************************************)
TextDelta(d) == [type |-> "TextDelta", delta |-> d]

ToolCallDelta(id, d) == [type |-> "ToolCallDelta", call_id |-> id, delta |-> d]

UsageEvent(u) == [type |-> "Usage", usage |-> u]

Done == [type |-> "Done"]

(***************************************************************************)
(* State.                                                                  *)
(***************************************************************************)
VARIABLES
    \* ---- FailoverRouter ----
    adapters,      \* FailoverRouter.adapters: the ordered child adapters
    policy,        \* FailoverRouter.policy
    r_mode,        \* which operation the call runs: "chat" | "chat_stream"
    r_pc,          \* position of the call: idle, next, await, done
    r_iter,        \* how many items the adapters_to_try() iterator has produced
    last_error,    \* local last_error: Option<ForgeError>
    r_result,      \* what the call returned: Option<Result<..>>
    r_calls,       \* log: the children invoked, in order
    r_outcomes,    \* log: what each invoked child returned, in order
    r_yielded,     \* per child: the items its stream has yielded so far
    r_received,    \* the items the caller has received from the returned stream
    r_info,        \* what info() returned: Option<AdapterInfo>
    r_cancelled,   \* the caller has dropped the future of the call
    \* ---- Client operations and run_tool_loop ----
    l_op,          \* the Client operation that was called
    script,        \* the model turns the adapter replays, None for any adapter
    request,       \* the (mutable) ChatRequest of the loop
    options,       \* ToolLoopOptions
    use_streaming, \* the use_streaming flag
    l_pc,          \* position: entry, top, await, exec, client_await, done
    iteration,     \* the loop variable of `for iteration in 0..max_iterations`
    invocations,   \* local invocations: Vec<ToolInvocation>
    l_pending,     \* the tool calls of the current response not yet executed
    l_result,      \* what the loop returned: Option<Result<ToolLoopResult,..>>
    l_sent,        \* log: the message list of every request sent to the adapter
    l_responses,   \* log: every response the loop obtained, in order
    l_exec,        \* log: every executor call, with its result, in order
    l_failed,      \* log: the error the adapter's answer carried, if it failed
    \* ---- adapter chat_stream (the try_stream! generator) ----
    provider,      \* which adapter: "openai" | "anthropic" | "gemini"
    upstream,      \* the response body the upstream sends before it closes
    u_pos,         \* how much of the body bytes_stream() has delivered
    buffer,        \* local buffer: String
    saw_done,      \* local saw_done
    event_name,    \* local event_name (Anthropic)
    data_lines,    \* local data_lines (Anthropic)
    s_pc,          \* position: read, lines, yield, eof, final, end
    s_queue,       \* events of the payload in hand that are not yet yielded
    s_resume,      \* where the generator continues after the yields
    s_out,         \* log: the items the stream has yielded, in order
    s_caller,      \* the holder of the stream: polling, holding, dropped, or
                   \* eager (polls again at once and never drops)
    \* ---- one adapter answering chat and chat_stream from one upstream ----
    f_provider,    \* which adapter: "openai" | "anthropic" | "gemini"
    f_upstream,    \* what the upstream answers to a request
    f_pc,          \* position: chat, handshake, records, end, collect, done
    f_chat,        \* what chat returned: Option<Result<ChatResponse, ..>>
    f_stream,      \* what chat_stream returned: Option<Result<(), ..>>
    f_next,        \* how many records of the stream body are consumed
    f_events,      \* log: the events the stream has yielded, in order
    f_collected,   \* what chat_stream_collect made of the stream
    \* ---- Client::chat_stream_collect, poll by poll ----
    c_req,         \* the request
    c_stream,      \* what chat_stream answers: an error, or the items the
                   \* stream yields until it closes
    c_polled,      \* how many items stream.next() has delivered
    c_text,        \* local text
    c_usage,       \* local usage
    c_deltas,      \* local tool_call_deltas
    c_pc,          \* position: start, loop, build, done
    c_result,      \* what the function returned
    \* ---- two callers on one FailoverRouter / Client ----
    sh_calls,      \* per caller: the locals of the call it runs and a log
    \* ---- the Gemini parse_stream_payload on one payload ----
    g_shape,       \* what the payload holds: its candidates and usage
    g_events,      \* what parse_stream_payload returned
    \* ---- the request body builders of the Anthropic and Gemini adapters ----
    b_provider,    \* which adapter: "anthropic" | "gemini"
    b_request,     \* the ChatRequest handed to the builder
    b_stream,      \* the stream flag (Anthropic)
    b_body         \* the body the builder returned

routerVars ==
    <<adapters, policy, r_mode, r_pc, r_iter, last_error, r_result, r_calls,
      r_outcomes, r_yielded, r_received, r_info, r_cancelled>>

loopVars ==
    <<l_op, script, request, options, use_streaming, l_pc, iteration,
      invocations, l_pending, l_result, l_sent, l_responses, l_exec,
      l_failed>>

streamVars ==
    <<provider, upstream, u_pos, buffer, saw_done, event_name, data_lines,
      s_pc, s_queue, s_resume, s_out, s_caller>>

fixtureVars ==
    <<f_provider, f_upstream, f_pc, f_chat, f_stream, f_next, f_events,
      f_collected>>

collectVars ==
    <<c_req, c_stream, c_polled, c_text, c_usage, c_deltas, c_pc, c_result>>

sharedVars == <<sh_calls>>

parseVars == <<g_shape, g_events>>

bodyVars == <<b_provider, b_request, b_stream, b_body>>

vars ==
    <<routerVars, loopVars, streamVars, fixtureVars, collectVars, sharedVars,
      parseVars, bodyVars>>

(***************************************************************************)
(* A component that is not exercised stays in its idle state.              *)
(***************************************************************************)
RouterIdle ==
    /\ adapters = <<1>>
    /\ policy = [max_adapters_to_try |-> 0]
    /\ r_mode = "none"
    /\ r_pc = "unused"
    /\ r_iter = 0
    /\ last_error = None
    /\ r_result = None
    /\ r_calls = <<>>
    /\ r_outcomes = <<>>
    /\ r_yielded = [i \in 1..MaxAdapters |-> <<>>]
    /\ r_received = <<>>
    /\ r_info = None
    /\ r_cancelled = FALSE

LoopIdle ==
    /\ l_op = "none"
    /\ script = None
    /\ request = [model |-> <<>>, messages |-> <<>>]
    /\ options = [max_iterations |-> 0]
    /\ use_streaming = FALSE
    /\ l_pc = "idle"
    /\ iteration = 0
    /\ invocations = <<>>
    /\ l_pending = <<>>
    /\ l_result = None
    /\ l_sent = <<>>
    /\ l_responses = <<>>
    /\ l_exec = <<>>
    /\ l_failed = None

StreamIdle ==
    /\ provider = "none"
    /\ upstream = <<>>
    /\ u_pos = 0
    /\ buffer = <<>>
    /\ saw_done = FALSE
    /\ event_name = None
    /\ data_lines = <<>>
    /\ s_pc = "unused"
    /\ s_queue = <<>>
    /\ s_resume = "unused"
    /\ s_out = <<>>
    /\ s_caller = "unused"

FixtureIdle ==
    /\ f_provider = "none"
    /\ f_upstream = [reached |-> FALSE]
    /\ f_pc = "unused"
    /\ f_chat = None
    /\ f_stream = None
    /\ f_next = 0
    /\ f_events = <<>>
    /\ f_collected = None

SharedIdle == sh_calls = <<>>

ParseIdle ==
    /\ g_shape = [json |-> FALSE]
    /\ g_events = None

BodyIdle ==
    /\ b_provider = "none"
    /\ b_request = [model |-> ""]
    /\ b_stream = FALSE
    /\ b_body = None

CollectIdle ==
    /\ c_req = [model |-> <<>>, messages |-> <<>>]
    /\ c_stream = [ok |-> TRUE, val |-> <<>>]
    /\ c_polled = 0
    /\ c_text = ""
    /\ c_usage = None
    /\ c_deltas = <<>>
    /\ c_pc = "unused"
    /\ c_result = None

(***************************************************************************)
(* FailoverRouter (crates/forgeai-router/src/lib.rs)                       *)
(***************************************************************************)
\* What a child adapter hands back on success.  `from` is the child that
\* produced it: a response, or (for chat_stream) the stream handle.
ChildValues(child) == {[from |-> child, id |-> v] : v \in {"v1", "v2"}}

\* Every outcome a child's chat / chat_stream call can have.
ChildOutcomes(child) ==
    {Ok(v) : v \in ChildValues(child)} \cup {Err(e) : e \in ForgeError}

\* Items a child's stream can yield once handed out.
StreamItems ==
    {Ok(TextDelta("a")), Ok(Done),
     Err(Transport("m1")), Err(Provider("m2"))}

ExhaustedMessage == "failover router exhausted adapters without error"

should_failover_always(error) == TRUE

should_failover(error) ==
    error.kind \in {"RateLimited", "Transport", "Provider"}

adapters_to_try_all == adapters

\* self.adapters.iter().take(self.policy.max_adapters_to_try)
adapters_to_try ==
    SubSeq(adapters, 1, Min(Len(adapters), policy.max_adapters_to_try))

\* FailoverPolicy::default(): usize::MAX, above the length of every list
FailoverPolicyDefault == [max_adapters_to_try |-> MaxAdapters + 1]

with_policy_unchecked(list, p) == Ok([adapters |-> list, policy |-> p])

\* FailoverRouter::with_policy
with_policy(list, p) ==
    IF list = <<>>
    THEN Err(Validation("failover router requires at least one adapter"))
    ELSE Ok([adapters |-> list, policy |-> p])

\* FailoverRouter::new
new(list) == with_policy(list, FailoverPolicyDefault)

\* AdapterInfo of child i
ChildInfo(i) ==
    [name |-> ToString(i), base_url |-> "url-" \o ToString(i),
     capabilities |-> "caps-" \o ToString(i)]

\* what indexing past the end of the list does
Panic == [name |-> "panic", base_url |-> "", capabilities |-> ""]

\* FailoverRouter::info
info ==
    IF adapters = <<>> THEN Panic
    ELSE [name |-> "failover-router",
          base_url |-> ChildInfo(adapters[1]).base_url,
          capabilities |-> ChildInfo(adapters[1]).capabilities]

\* Before construction: the arguments of the constructor the caller is about
\* to run; adapters and policy hold what is passed in.
BuildInit ==
    /\ adapters \in {[i \in 1..n |-> i] : n \in 0..MaxAdapters}
    /\ r_mode \in {"new", "with_policy"}
    /\ policy \in IF r_mode = "new" THEN {FailoverPolicyDefault}
                  ELSE [max_adapters_to_try : 0..(MaxAdapters + 1)]
    /\ r_pc = "new"
    /\ r_iter = 0
    /\ last_error = None
    /\ r_result = None
    /\ r_calls = <<>>
    /\ r_outcomes = <<>>
    /\ r_yielded = [i \in 1..MaxAdapters |-> <<>>]
    /\ r_received = <<>>
    /\ r_info = None
    /\ r_cancelled = FALSE
    /\ LoopIdle /\ StreamIdle /\ FixtureIdle /\ CollectIdle
    /\ SharedIdle
    /\ ParseIdle /\ BodyIdle

\* The constructor runs: the router exists (idle) or the caller holds the
\* error and no router.
RouterConstruct ==
    /\ r_pc = "new"
    /\ LET built == IF r_mode = "new" THEN new(adapters)
                    ELSE with_policy(adapters, policy)
       IN IF built.ok
          THEN /\ adapters' = built.val.adapters
               /\ policy' = built.val.policy
               /\ r_pc' = "idle"
               /\ r_result' = None
          ELSE /\ r_pc' = "failed"
               /\ r_result' = Some(built)
               /\ UNCHANGED <<adapters, policy>>
    /\ UNCHANGED <<r_mode, r_iter, last_error, r_calls, r_outcomes, r_yielded,
                   r_received, r_info, r_cancelled>>
    /\ UNCHANGED <<loopVars, streamVars, fixtureVars, collectVars, sharedVars>>
    /\ UNCHANGED <<parseVars, bodyVars>>

\* The caller asks the router to describe itself.
RouterInfo ==
    /\ r_pc \in {"idle", "next", "await", "done"}
    /\ r_info = None
    /\ r_info' = Some(info)
    /\ UNCHANGED <<r_cancelled, adapters, policy, r_mode, r_pc, r_iter, last_error,
                   r_result, r_calls, r_outcomes, r_yielded, r_received>>
    /\ UNCHANGED <<loopVars, streamVars, fixtureVars, collectVars, sharedVars>>
    /\ UNCHANGED <<parseVars, bodyVars>>

\* The state after construction: a non-empty adapter list and a policy.
RouterInit ==
    /\ adapters \in {[i \in 1..n |-> i] : n \in 1..MaxAdapters}
    /\ policy \in [max_adapters_to_try : 0..(MaxAdapters + 1)]
    /\ r_mode = "none"
    /\ r_pc = "idle"
    /\ r_iter = 0
    /\ last_error = None
    /\ r_result = None
    /\ r_calls = <<>>
    /\ r_outcomes = <<>>
    /\ r_yielded = [i \in 1..MaxAdapters |-> <<>>]
    /\ r_received = <<>>
    /\ r_info = None
    /\ r_cancelled = FALSE
    /\ LoopIdle /\ StreamIdle /\ FixtureIdle /\ CollectIdle
    /\ SharedIdle
    /\ ParseIdle /\ BodyIdle

\* The caller starts chat or chat_stream: `let mut last_error = None`.
RouterCall(mode) ==
    /\ r_pc = "idle"
    /\ r_mode' = mode
    /\ r_pc' = "next"
    /\ last_error' = None
    /\ UNCHANGED <<r_cancelled, r_info, adapters, policy, r_iter, r_result, r_calls, r_outcomes,
                   r_yielded, r_received>>
    /\ UNCHANGED <<loopVars, streamVars, fixtureVars, collectVars, sharedVars>>
    /\ UNCHANGED <<parseVars, bodyVars>>

\* The for loop takes the next adapter and calls it (the call is in flight
\* until the child answers).
RouterInvoke(mode) ==
    /\ r_pc = "next"
    /\ r_mode = mode
    /\ r_iter < Len(adapters_to_try)
    /\ r_iter' = r_iter + 1
    /\ r_calls' = Append(r_calls, adapters_to_try[r_iter + 1])
    /\ r_pc' = "await"
    /\ UNCHANGED <<r_cancelled, r_info, adapters, policy, r_mode, last_error, r_result, r_outcomes,
                   r_yielded, r_received>>
    /\ UNCHANGED <<loopVars, streamVars, fixtureVars, collectVars, sharedVars>>
    /\ UNCHANGED <<parseVars, bodyVars>>

\* The three match arms applied to a child's outcome: the successor of
\* (r_pc, last_error, r_result).
MatchContinueOnOk(outcome) ==
    IF outcome.ok
    THEN [pc |-> "next", last |-> last_error, result |-> Some(outcome)]
    ELSE IF should_failover(outcome.err)
    THEN [pc |-> "next", last |-> Some(outcome.err), result |-> r_result]
    ELSE [pc |-> "done", last |-> last_error, result |-> Some(outcome)]

MatchKeepFirstError(outcome) ==
    IF outcome.ok
    THEN [pc |-> "done", last |-> last_error, result |-> Some(outcome)]
    ELSE IF should_failover(outcome.err)
    THEN [pc |-> "next",
          last |-> IF last_error.some THEN last_error ELSE Some(outcome.err),
          result |-> r_result]
    ELSE [pc |-> "done", last |-> last_error, result |-> Some(outcome)]

ChatMatch(outcome) ==
    IF outcome.ok
    THEN [pc |-> "done", last |-> last_error, result |-> Some(outcome)]
    ELSE IF should_failover(outcome.err)
    THEN [pc |-> "next", last |-> Some(outcome.err), result |-> r_result]
    ELSE [pc |-> "done", last |-> last_error, result |-> Some(outcome)]

ChatStreamMatch(outcome) ==
    IF outcome.ok
    THEN [pc |-> "done", last |-> last_error, result |-> Some(outcome)]
    ELSE IF should_failover(outcome.err)
    THEN [pc |-> "next", last |-> Some(outcome.err), result |-> r_result]
    ELSE [pc |-> "done", last |-> last_error, result |-> Some(outcome)]

RouterMatch(mode, outcome) ==
    IF mode = "chat" THEN ChatMatch(outcome) ELSE ChatStreamMatch(outcome)

\* The child in flight answers; the router matches on the answer.
RouterReturn(mode) ==
    /\ r_pc = "await"
    /\ r_mode = mode
    /\ \E outcome \in ChildOutcomes(r_calls[Len(r_calls)]) :
          LET m == RouterMatch(mode, outcome) IN
          /\ r_outcomes' = Append(r_outcomes, outcome)
          /\ r_pc' = m.pc
          /\ last_error' = m.last
          /\ r_result' = m.result
    /\ UNCHANGED <<r_cancelled, r_info, adapters, policy, r_mode, r_iter, r_calls, r_yielded,
                   r_received>>
    /\ UNCHANGED <<loopVars, streamVars, fixtureVars, collectVars, sharedVars>>
    /\ UNCHANGED <<parseVars, bodyVars>>

\* Err(last_error.unwrap_or_else(|| Internal(..)))
Exhausted ==
    Err(IF last_error.some THEN last_error.val ELSE Internal(ExhaustedMessage))

\* The iterator is exhausted: the loop ends and the function returns the error.
RouterExhausted(mode) ==
    /\ r_pc = "next"
    /\ r_mode = mode
    /\ r_iter >= Len(adapters_to_try)
    /\ r_pc' = "done"
    /\ r_result' = Some(Exhausted)
    /\ UNCHANGED <<r_cancelled, r_info, adapters, policy, r_mode, r_iter, last_error, r_calls,
                   r_outcomes, r_yielded, r_received>>
    /\ UNCHANGED <<loopVars, streamVars, fixtureVars, collectVars, sharedVars>>
    /\ UNCHANGED <<parseVars, bodyVars>>

\* A router that wraps the child's stream and fails over on an in-stream error.
RouterStreamPollFailover ==
    /\ r_pc = "done"
    /\ r_mode = "chat_stream"
    /\ r_result.some
    /\ r_result.val.ok
    /\ Len(r_received) < MaxPolls
    /\ \E item \in StreamItems :
          /\ r_yielded' = [r_yielded EXCEPT
                             ![r_result.val.val.from] = Append(@, item)]
          /\ IF ~item.ok /\ should_failover(item.err)
                 /\ r_iter < Len(adapters_to_try)
             THEN /\ r_calls' = Append(r_calls, adapters_to_try[r_iter + 1])
                  /\ r_iter' = r_iter + 1
                  /\ r_received' = r_received
             ELSE /\ r_received' = Append(r_received, item)
                  /\ UNCHANGED <<r_calls, r_iter>>
    /\ UNCHANGED <<r_cancelled, r_info, adapters, policy, r_mode, r_pc, last_error, r_result,
                   r_outcomes>>
    /\ UNCHANGED <<loopVars, streamVars, fixtureVars, collectVars, sharedVars>>
    /\ UNCHANGED <<parseVars, bodyVars>>

\* The caller polls the stream chat_stream returned: the stream is the
\* child's own stream object, so the child yields and the caller receives.
RouterStreamPoll ==
    /\ r_pc = "done"
    /\ r_mode = "chat_stream"
    /\ r_result.some
    /\ r_result.val.ok
    /\ Len(r_received) < MaxPolls
    /\ \E item \in StreamItems :
          /\ r_yielded' = [r_yielded EXCEPT
                             ![r_result.val.val.from] = Append(@, item)]
          /\ r_received' = Append(r_received, item)
    /\ UNCHANGED <<r_cancelled, r_info, adapters, policy, r_mode, r_pc, r_iter, last_error,
                   r_result, r_calls, r_outcomes>>
    /\ UNCHANGED <<loopVars, streamVars, fixtureVars, collectVars, sharedVars>>
    /\ UNCHANGED <<parseVars, bodyVars>>

RouterCancelDetached ==
    /\ r_pc = "await"
    /\ ~r_cancelled
    /\ r_cancelled' = TRUE
    /\ r_pc' = r_pc
    /\ UNCHANGED <<r_info, adapters, policy, r_mode, r_iter, last_error,
                   r_result, r_calls, r_outcomes, r_yielded, r_received>>
    /\ UNCHANGED <<loopVars, streamVars, fixtureVars, collectVars, sharedVars>>
    /\ UNCHANGED <<parseVars, bodyVars>>

\* The caller drops the future of chat or chat_stream while it is suspended
\* at `adapter.chat(..).await`: the loop, its locals and the child's future
\* are dropped; the function never resumes.
RouterCancel ==
    /\ r_pc = "await"
    /\ ~r_cancelled
    /\ r_cancelled' = TRUE
    /\ r_pc' = "cancelled"
    /\ UNCHANGED <<r_info, adapters, policy, r_mode, r_iter, last_error,
                   r_result, r_calls, r_outcomes, r_yielded, r_received>>
    /\ UNCHANGED <<loopVars, streamVars, fixtureVars, collectVars, sharedVars>>
    /\ UNCHANGED <<parseVars, bodyVars>>

RouterNext ==
    \/ RouterCall("chat")
    \/ RouterCall("chat_stream")
    \/ RouterInvoke("chat")
    \/ RouterInvoke("chat_stream")
    \/ RouterReturn("chat")
    \/ RouterReturn("chat_stream")
    \/ RouterExhausted("chat")
    \/ RouterExhausted("chat_stream")
    \/ RouterStreamPoll
    \/ RouterInfo

\* the constructor, then the methods of the router it gave
BuildNext ==
    \/ RouterConstruct
    \/ RouterCall("chat")
    \/ RouterCall("chat_stream")
    \/ RouterInvoke("chat")
    \/ RouterInvoke("chat_stream")
    \/ RouterReturn("chat")
    \/ RouterReturn("chat_stream")
    \/ RouterExhausted("chat")
    \/ RouterExhausted("chat_stream")
    \/ RouterStreamPoll
    \/ RouterInfo

\* the methods of the router, with a caller that may cancel a call
CancelNext ==
    \/ RouterCall("chat")
    \/ RouterCall("chat_stream")
    \/ RouterInvoke("chat")
    \/ RouterInvoke("chat_stream")
    \/ RouterReturn("chat")
    \/ RouterReturn("chat_stream")
    \/ RouterExhausted("chat")
    \/ RouterExhausted("chat_stream")
    \/ RouterStreamPoll
    \/ RouterInfo
    \/ RouterCancel

(***************************************************************************)
(* Request validator (crates/forgeai-core/src/lib.rs)                      *)
(***************************************************************************)
\* A text is the sequence of its characters.
Whitespace == {" ", "\t", "\n", "\r"}

RECURSIVE TrimStart(_)
TrimStart(s) ==
    IF s # <<>> /\ Head(s) \in Whitespace THEN TrimStart(Tail(s)) ELSE s

RECURSIVE TrimEnd(_)
TrimEnd(s) ==
    IF s # <<>> /\ s[Len(s)] \in Whitespace
    THEN TrimEnd(SubSeq(s, 1, Len(s) - 1))
    ELSE s

\* str::trim
Trim(s) == TrimEnd(TrimStart(s))

validate_request_untrimmed(req) ==
    IF req.model = <<>>
    THEN Err(Validation("model cannot be empty"))
    ELSE IF req.messages = <<>>
    THEN Err(Validation("messages cannot be empty"))
    ELSE Ok("unit")

validate_request(req) ==
    IF Trim(req.model) = <<>>
    THEN Err(Validation("model cannot be empty"))
    ELSE IF req.messages = <<>>
    THEN Err(Validation("messages cannot be empty"))
    ELSE Ok("unit")

(***************************************************************************)
(* Tool loop and stream collector (crates/forgeai/src/lib.rs)              *)
(***************************************************************************)
Message(role, content) == [role |-> role, content |-> content]

\* The requests a caller hands to the loop: valid ones, and ones with a blank
\* model or no message.
Requests ==
    [model : {<<>>, <<" ">>, <<"\t", " ">>, <<"m">>, <<" ", "m">>},
     messages : {<<>>, <<Message("User", "q")>>},
     temperature : {Some(1)}, max_tokens : {Some(16)},
     tools : {<<"t1", "t2">>}, metadata : {JObj([trace |-> JStr("x")])}]

\* The tool calls a model response can carry.
ToolCalls ==
    {[id |-> "c1", name |-> "t1", arguments |-> JStr("a1")],
     [id |-> "c2", name |-> "t2", arguments |-> JObj([tz |-> JStr("UTC")])]}

ToolCallLists ==
    UNION {[1..n -> ToolCalls] : n \in 0..MaxToolCalls}

Usage(input, output, total) ==
    [input_tokens |-> input, output_tokens |-> output, total_tokens |-> total]

ChatResponse(id, model, text, calls, usage) ==
    [id |-> id, model |-> model, output_text |-> text, tool_calls |-> calls,
     usage |-> usage]

\* What adapter.chat can answer.
ChatOutcomes ==
    {Ok(ChatResponse("1", <<"m">>, t, c, None)) :
        t \in {"", "hi"}, c \in ToolCallLists}
    \cup {Err(e) : e \in {RateLimited, Provider("m1")}}

\* The items an event stream handed to the collector can yield.
CollectItems ==
    {Ok(TextDelta("h")),
     Ok(ToolCallDelta("c1", JObj([name |-> JStr("t1"),
                                  arguments |-> JStr("a1")]))),
     Ok(ToolCallDelta("c2", JObj([function |->
                                     JObj([name |-> JStr("t2"),
                                           arguments |-> JStr("a2")])]))),
     Ok(Done),
     Err(Transport("m2"))}

\* What adapter.chat_stream can answer: a handshake error or a stream, given
\* as the items it will yield until it closes.
StreamOutcomes ==
    {Ok(items) : items \in UNION {[1..n -> CollectItems] : n \in 0..MaxEvents}}
    \cup {Err(e) : e \in {RateLimited, Provider("m1")}}

\* HashMap::insert
MapInsert(map, k, v) ==
    [x \in (DOMAIN map) \cup {k} |-> IF x = k THEN v ELSE map[x]]

\* The while-let loop of chat_stream_collect from item i on: the accumulators
\* when the loop ends, or the error that `item?` returns.
RECURSIVE CollectLoop(_, _, _)
CollectLoop(items, i, acc) ==
    IF i > Len(items)
    THEN Ok(acc)
    ELSE IF ~items[i].ok
    THEN Err(items[i].err)
    ELSE LET event == items[i].val IN
         CASE event.type = "TextDelta" ->
                CollectLoop(items, i + 1,
                            [acc EXCEPT !.text = @ \o event.delta])
           [] event.type = "Usage" ->
                CollectLoop(items, i + 1,
                            [acc EXCEPT !.usage = Some(event.usage)])
           [] event.type = "ToolCallDelta" ->
                CollectLoop(items, i + 1,
                            [acc EXCEPT !.tool_call_deltas =
                                MapInsert(@, event.call_id, event.delta)])
           [] event.type = "Done" -> Ok(acc)

DeltaNameFunctionOnly(delta) ==
    UnwrapOr(AsStr(GetIn(Get(delta, "function"), "name")), "unknown_tool")

\* delta.name, else delta.function.name, else "unknown_tool"
DeltaName(delta) ==
    IF AsStr(Get(delta, "name")).some
    THEN AsStr(Get(delta, "name")).val
    ELSE UnwrapOr(AsStr(GetIn(Get(delta, "function"), "name")), "unknown_tool")

\* delta.arguments, else delta.function.arguments, else Null
DeltaArguments(delta) ==
    IF Get(delta, "arguments").some
    THEN Get(delta, "arguments").val
    ELSE UnwrapOr(GetIn(Get(delta, "function"), "arguments"), JNull)

ProjectToolCall(call_id, delta) ==
    [id |-> call_id, name |-> DeltaName(delta),
     arguments |-> DeltaArguments(delta)]

\* The orders in which a HashMap with these keys can be iterated.
IterationOrders(keys) ==
    {o \in [1..Cardinality(keys) -> keys] :
        \A a, b \in 1..Cardinality(keys) : a # b => o[a] # o[b]}

\* Client::chat_stream_collect on the adapter's answer to chat_stream: every
\* result it can return (the map's iteration order is not determined).
chat_stream_collect(req, outcome) ==
    IF ~validate_request(req).ok
    THEN {Err(validate_request(req).err)}
    ELSE IF ~outcome.ok
    THEN {Err(outcome.err)}
    ELSE LET r == CollectLoop(outcome.val, 1,
                              [text |-> "", usage |-> None,
                               tool_call_deltas |-> <<>>])
         IN IF ~r.ok
            THEN {Err(r.err)}
            ELSE {Ok(ChatResponse(
                       "stream-collected", req.model, r.val.text,
                       [k \in 1..Len(o) |->
                           ProjectToolCall(o[k], r.val.tool_call_deltas[o[k]])],
                       r.val.usage)) :
                    o \in IterationOrders(DOMAIN r.val.tool_call_deltas)}

\* ---- chat_stream_collect as the loop it is, one poll at a time ----
\* The items a stream handed to the collector can yield.
PolledItems ==
    {Ok(TextDelta("a")), Ok(TextDelta("b")),
     Ok(UsageEvent(Usage(1, 2, 3))), Ok(UsageEvent(Usage(4, 5, 9))),
     Ok(ToolCallDelta("c1", JObj([name |-> JStr("t1"),
                                  arguments |-> JStr("a1")]))),
     Ok(ToolCallDelta("c1", JObj([function |->
                                     JObj([name |-> JStr("t2"),
                                           arguments |-> JStr("a2")])]))),
     Ok(ToolCallDelta("c2", JObj([name |-> JStr("t3")]))),
     Ok(Done),
     Err(Transport("m2"))}

PolledStreams ==
    {Ok(items) : items \in UNION {[1..n -> PolledItems] : n \in 0..MaxEvents}}
    \cup {Err(RateLimited)}

\* chat_stream_collect is called.
CollectInit ==
    /\ c_req \in {[model |-> <<"m">>, messages |-> <<Message("User", "q")>>],
                  [model |-> <<" ">>, messages |-> <<Message("User", "q")>>]}
    /\ c_stream \in PolledStreams
    /\ c_polled = 0
    /\ c_text = ""
    /\ c_usage = None
    /\ c_deltas = <<>>
    /\ c_pc = "start"
    /\ c_result = None
    /\ RouterIdle /\ LoopIdle /\ StreamIdle /\ FixtureIdle
    /\ SharedIdle
    /\ ParseIdle /\ BodyIdle

\* let mut stream = self.chat_stream(request.clone()).await?: the request is
\* validated and the adapter answers with a stream or an error.
CollectStart ==
    /\ c_pc = "start"
    /\ IF ~validate_request(c_req).ok
       THEN /\ c_pc' = "done"
            /\ c_result' = Some(Err(validate_request(c_req).err))
       ELSE IF ~c_stream.ok
       THEN /\ c_pc' = "done"
            /\ c_result' = Some(Err(c_stream.err))
       ELSE /\ c_pc' = "loop"
            /\ c_result' = c_result
    /\ UNCHANGED <<c_req, c_stream, c_polled, c_text, c_usage, c_deltas>>
    /\ UNCHANGED <<routerVars, loopVars, streamVars, fixtureVars, sharedVars>>
    /\ UNCHANGED <<parseVars, bodyVars>>

PushStrFront(s, delta) == delta \o s

\* text.push_str(&delta)
PushStr(s, delta) == s \o delta

SetUsageOnce(old, u) == IF old.some THEN old ELSE Some(u)

\* usage = Some(u)
SetUsage(old, u) == Some(u)

InsertDeltaIfAbsent(map, k, v) ==
    [x \in (DOMAIN map) \cup {k} |-> IF x \in DOMAIN map THEN map[x] ELSE v]

\* tool_call_deltas.insert(call_id, delta)
InsertDelta(map, k, v) == MapInsert(map, k, v)

CollectPollSkipsErrors ==
    /\ c_pc = "loop"
    /\ c_polled < Len(c_stream.val)
    /\ c_polled' = c_polled + 1
    /\ LET item == c_stream.val[c_polled + 1] IN
       IF ~item.ok
       THEN UNCHANGED <<c_pc, c_result, c_text, c_usage, c_deltas>>
       ELSE /\ c_result' = c_result
            /\ c_pc' = IF item.val.type = "Done" THEN "build" ELSE "loop"
            /\ c_text' = IF item.val.type = "TextDelta"
                         THEN PushStr(c_text, item.val.delta) ELSE c_text
            /\ c_usage' = IF item.val.type = "Usage"
                          THEN SetUsage(c_usage, item.val.usage) ELSE c_usage
            /\ c_deltas' = IF item.val.type = "ToolCallDelta"
                           THEN InsertDelta(c_deltas, item.val.call_id,
                                            item.val.delta)
                           ELSE c_deltas
    /\ UNCHANGED <<c_req, c_stream>>
    /\ UNCHANGED <<routerVars, loopVars, streamVars, fixtureVars, sharedVars>>
    /\ UNCHANGED <<parseVars, bodyVars>>

\* One round of `while let Some(item) = stream.next().await { match item? ..`:
\* the stream yields its next item.
CollectPoll ==
    /\ c_pc = "loop"
    /\ c_polled < Len(c_stream.val)
    /\ c_polled' = c_polled + 1
    /\ LET item == c_stream.val[c_polled + 1] IN
       IF ~item.ok
       THEN /\ c_pc' = "done"
            /\ c_result' = Some(Err(item.err))
            /\ UNCHANGED <<c_text, c_usage, c_deltas>>
       ELSE /\ c_result' = c_result
            /\ c_pc' = IF item.val.type = "Done" THEN "build" ELSE "loop"
            /\ c_text' = IF item.val.type = "TextDelta"
                         THEN PushStr(c_text, item.val.delta) ELSE c_text
            /\ c_usage' = IF item.val.type = "Usage"
                          THEN SetUsage(c_usage, item.val.usage) ELSE c_usage
            /\ c_deltas' = IF item.val.type = "ToolCallDelta"
                           THEN InsertDelta(c_deltas, item.val.call_id,
                                            item.val.delta)
                           ELSE c_deltas
    /\ UNCHANGED <<c_req, c_stream>>
    /\ UNCHANGED <<routerVars, loopVars, streamVars, fixtureVars, sharedVars>>
    /\ UNCHANGED <<parseVars, bodyVars>>

\* stream.next().await yields None: the stream closed without Done.
CollectClosed ==
    /\ c_pc = "loop"
    /\ c_polled = Len(c_stream.val)
    /\ c_pc' = "build"
    /\ UNCHANGED <<c_req, c_stream, c_polled, c_text, c_usage, c_deltas,
                   c_result>>
    /\ UNCHANGED <<routerVars, loopVars, streamVars, fixtureVars, sharedVars>>
    /\ UNCHANGED <<parseVars, bodyVars>>

\* After the loop: the map is turned into the tool calls, in the order its
\* iterator gives, and the response is returned.
CollectBuild ==
    /\ c_pc = "build"
    /\ \E o \in IterationOrders(DOMAIN c_deltas) :
          c_result' = Some(Ok(ChatResponse(
                          "stream-collected", c_req.model, c_text,
                          [k \in 1..Len(o) |->
                              ProjectToolCall(o[k], c_deltas[o[k]])],
                          c_usage)))
    /\ c_pc' = "done"
    /\ UNCHANGED <<c_req, c_stream, c_polled, c_text, c_usage, c_deltas>>
    /\ UNCHANGED <<routerVars, loopVars, streamVars, fixtureVars, sharedVars>>
    /\ UNCHANGED <<parseVars, bodyVars>>

CollectNext ==
    \/ CollectStart
    \/ CollectPoll
    \/ CollectClosed
    \/ CollectBuild

\* ToolError and its Display text
NotFound(name) == "tool not found: " \o name

Execution(m) == "tool execution failed: " \o m

\* What the executor can answer to call(name, input): a result computed from
\* the input, or one of the two tool errors.
ExecOutcomes(name, input) ==
    {Ok(JObj([echo |-> input])), Err(NotFound(name)), Err(Execution("boom"))}

\* usize to text, as {} formats it
UsizeToString(n) == ToString(n)

\* format!("tool '{}' execution failed: {e}", call.name)
ExecFailedMessage(name, e) == "tool '" \o name \o "' execution failed: " \o e

\* format!("tool loop exceeded max iterations ({})", options.max_iterations)
ExceededMessage(n) ==
    "tool loop exceeded max iterations (" \o UsizeToString(n) \o ")"

\* json!({"tool_call_id": .., "name": .., "output": ..}).to_string()
ToolMessageContent(call, output) ==
    JsonText(JObj([tool_call_id |-> JStr(call.id), name |-> JStr(call.name),
                   output |-> output]))

ToolInvocationNamed(call, output) ==
    [call_id |-> call.name, name |-> call.name, input |-> call.arguments,
     output |-> output]

ToolInvocation(call, output) ==
    [call_id |-> call.id, name |-> call.name, input |-> call.arguments,
     output |-> output]

ToolLoopResult(resp, invs, its) ==
    [final_response |-> resp, tool_invocations |-> invs, iterations |-> its]

\* ---- an adapter that replays a script (MockAdapter of the tests) ----
\* A model turn: its text, as characters, and at most one tool call.
Turns ==
    [text : {<<>>, <<"h", "i">>}, calls : {<<>>} \cup {<<c>> : c \in ToolCalls}]

Scripts == UNION {[1..n -> Turns] : n \in 0..MaxIterations}

\* the turn as a ChatResponse
TurnResponse(turn) ==
    ChatResponse("1", <<"m">>, Concat(turn.text), turn.calls, None)

RECURSIVE Splits(_)
\* the ways to cut a text into non-empty pieces
Splits(text) ==
    IF text = <<>> THEN {<<>>}
    ELSE UNION {{<<SubSeq(text, 1, k)>> \o rest :
                    rest \in Splits(SubSeq(text, k + 1, Len(text)))} :
                k \in 1..Len(text)}

\* the turn as event streams: its text as TextDeltas, its tool call as one
\* ToolCallDelta with {name, arguments} anywhere among them, then Done
TurnStreams(turn) ==
    LET call_deltas ==
            [i \in 1..Len(turn.calls) |->
                Ok(ToolCallDelta(turn.calls[i].id,
                                 JObj([name |-> JStr(turn.calls[i].name),
                                       arguments |-> turn.calls[i].arguments])))]
        text_deltas(pieces) ==
            [i \in 1..Len(pieces) |-> Ok(TextDelta(Concat(pieces[i])))]
        streams(pieces) ==
            {SubSeq(text_deltas(pieces), 1, at) \o call_deltas
                 \o SubSeq(text_deltas(pieces), at + 1, Len(pieces))
                 \o <<Ok(Done)>> : at \in 0..Len(pieces)}
    IN {s \in UNION {streams(pieces) : pieces \in Splits(turn.text)} :
          Len(s) <= MaxEvents}

\* chat_responses.pop_front().ok_or_else(..)
MockChat ==
    IF Len(l_sent) <= Len(script.val)
    THEN {Ok(TurnResponse(script.val[Len(l_sent)]))}
    ELSE {Err(Internal("no mock chat response remaining"))}

\* stream_responses.pop_front().ok_or_else(..)
MockChatStream ==
    IF Len(l_sent) <= Len(script.val)
    THEN {Ok(s) : s \in TurnStreams(script.val[Len(l_sent)])}
    ELSE {Err(Internal("no mock stream response remaining"))}

\* self.adapter.chat(request): what the adapter of this client can answer
AdapterChat == IF script.some THEN MockChat ELSE ChatOutcomes

\* self.adapter.chat_stream(request)
AdapterChatStream == IF script.some THEN MockChatStream ELSE StreamOutcomes

\* The operations of Client.
ClientOps == {"chat", "chat_stream"}

ToolOps == {"chat_with_tools", "chat_with_tools_streaming"}

\* The start of a call: its operation, request and (for the tool loop)
\* options; chat_with_tools passes use_streaming = false and
\* chat_with_tools_streaming passes true.  chat and chat_stream take no
\* options.
CallInit ==
    /\ l_op \in ClientOps \cup ToolOps
    /\ request \in Requests
    /\ options \in IF l_op \in ToolOps
                   THEN [max_iterations : 0..MaxIterations]
                   ELSE {[max_iterations |-> 0]}
    /\ use_streaming = (l_op = "chat_with_tools_streaming")
    /\ l_pc = "entry"
    /\ iteration = 0
    /\ invocations = <<>>
    /\ l_pending = <<>>
    /\ l_result = None
    /\ l_sent = <<>>
    /\ l_responses = <<>>
    /\ l_exec = <<>>
    /\ l_failed = None

\* A Client operation is called on a client whose adapter replays a script.
ScriptInit ==
    /\ script \in {Some(s) : s \in Scripts}
    /\ CallInit
    /\ RouterIdle /\ StreamIdle /\ FixtureIdle /\ CollectIdle
    /\ SharedIdle
    /\ ParseIdle /\ BodyIdle

\* A Client operation is called on a client whose adapter may answer anything.
LoopInit ==
    /\ script = None
    /\ CallInit
    /\ RouterIdle /\ StreamIdle /\ FixtureIdle /\ CollectIdle
    /\ SharedIdle
    /\ ParseIdle /\ BodyIdle

\* chat_with_tools or chat_with_tools_streaming is called, with a request
\* whose model is "m" or empty, on a client whose adapter may answer
\* anything.
ToolLoopInit ==
    /\ LoopInit
    /\ l_op \in ToolOps
    /\ request.model \in {<<>>, <<"m">>}

EntryNoIterationCheck ==
    IF ~validate_request(request).ok
    THEN Some(Err(validate_request(request).err))
    ELSE None

\* The checks at the head of run_tool_loop: the error they return, if any.
EntryCheck ==
    IF ~validate_request(request).ok
    THEN Some(Err(validate_request(request).err))
    ELSE IF options.max_iterations = 0
    THEN Some(Err(Validation("max_iterations must be greater than 0")))
    ELSE None

LoopEntry ==
    /\ l_op \in ToolOps
    /\ l_pc = "entry"
    /\ IF EntryCheck.some
       THEN /\ l_pc' = "done"
            /\ l_result' = EntryCheck
       ELSE /\ l_pc' = "top"
            /\ l_result' = l_result
    /\ invocations' = <<>>
    /\ UNCHANGED <<l_op, script, request, options, use_streaming, iteration,
                   l_pending, l_sent, l_responses, l_exec>>
    /\ UNCHANGED <<routerVars, streamVars, fixtureVars, collectVars,
                   sharedVars>>
    /\ UNCHANGED l_failed
    /\ UNCHANGED <<parseVars, bodyVars>>

IterationRangeInclusive == 0..options.max_iterations

\* 0..options.max_iterations
IterationRange == 0..(options.max_iterations - 1)

\* The for loop starts an iteration and sends the current request to the
\* adapter (chat, or chat_stream through chat_stream_collect).
LoopSend ==
    /\ l_pc = "top"
    /\ iteration \in IterationRange
    /\ l_sent' = Append(l_sent, request.messages)
    /\ l_pc' = "await"
    /\ UNCHANGED <<l_op, script, request, options, use_streaming, iteration,
                   invocations, l_pending, l_result, l_responses, l_exec>>
    /\ UNCHANGED <<routerVars, streamVars, fixtureVars, collectVars,
                   sharedVars>>
    /\ UNCHANGED l_failed
    /\ UNCHANGED <<parseVars, bodyVars>>

\* Client::chat / Client::chat_stream: validate_request(&request)?, then the
\* request goes to the adapter.
ClientCall ==
    /\ l_op \in ClientOps
    /\ l_pc = "entry"
    /\ IF ~validate_request(request).ok
       THEN /\ l_pc' = "done"
            /\ l_result' = Some(Err(validate_request(request).err))
            /\ UNCHANGED l_sent
       ELSE /\ l_pc' = "client_await"
            /\ l_sent' = Append(l_sent, request.messages)
            /\ UNCHANGED l_result
    /\ UNCHANGED <<l_op, script, request, options, use_streaming, iteration,
                   invocations, l_pending, l_responses, l_exec>>
    /\ UNCHANGED <<routerVars, streamVars, fixtureVars, collectVars,
                   sharedVars>>
    /\ UNCHANGED l_failed
    /\ UNCHANGED <<parseVars, bodyVars>>

\* The adapter answers and the operation returns the answer as it is.
ClientReturn ==
    /\ l_pc = "client_await"
    /\ \E outcome \in (IF l_op = "chat" THEN AdapterChat
                        ELSE AdapterChatStream) :
          l_result' = Some(outcome)
    /\ l_pc' = "done"
    /\ UNCHANGED <<l_op, script, request, options, use_streaming, iteration,
                   invocations, l_pending, l_sent, l_responses, l_exec>>
    /\ UNCHANGED <<routerVars, streamVars, fixtureVars, collectVars,
                   sharedVars>>
    /\ UNCHANGED l_failed
    /\ UNCHANGED <<parseVars, bodyVars>>

PushMessageFront(messages, message) == <<message>> \o messages

\* request.messages.push(..)
PushMessage(messages, message) == Append(messages, message)

\* What the adapter can answer to the call of this iteration: chat, or
\* chat_stream inside chat_stream_collect.
AdapterAnswers == IF use_streaming THEN AdapterChatStream ELSE AdapterChat

\* What the `response = ...` expression makes of the adapter's answer: every
\* result it can have.
ResponsesTo(answer) ==
    IF use_streaming THEN chat_stream_collect(request, answer) ELSE {answer}

\* What the loop has in hand once the adapter answered: every result the
\* `response = ...` expression can have.
ResponseOutcomes == UNION {ResponsesTo(answer) : answer \in AdapterAnswers}

RECURSIVE FirstError(_)
\* the error of the first error item of a stream that lies before its first
\* Done, if there is one
FirstError(items) ==
    IF items = <<>> THEN None
    ELSE IF ~Head(items).ok THEN Some(Head(items).err)
    ELSE IF Head(items).val = Done THEN None
    ELSE FirstError(Tail(items))

\* the error the adapter's answer carries: that of chat, of the chat_stream
\* handshake, or of an item of the stream
FailureOf(answer) ==
    IF ~answer.ok THEN Some(answer.err)
    ELSE IF use_streaming THEN FirstError(answer.val)
    ELSE None

IterationsReportedZeroBased == iteration

\* iterations: iteration + 1
IterationsReported == iteration + 1

PropagateWrapped(e) == Err(Provider(e.msg))

\* the `?` after .await: the error is returned as it is
Propagate(e) == Err(e)

\* The adapter answered: `?` returns its error, a response without tool calls
\* ends the loop, any other response is appended as an Assistant message and
\* its tool calls are taken up.
LoopReceive ==
    /\ l_pc = "await"
    /\ \E answer \in AdapterAnswers : \E r \in ResponsesTo(answer) :
          /\ l_failed' = FailureOf(answer)
          /\ IF ~r.ok
             THEN /\ l_pc' = "done"
                  /\ l_result' = Some(Propagate(r.err))
                  /\ UNCHANGED <<request, l_pending, l_responses, iteration>>
             ELSE /\ l_responses' = Append(l_responses, r.val)
                  /\ IF r.val.tool_calls = <<>>
                     THEN /\ l_pc' = "done"
                          /\ l_result' =
                               Some(Ok(ToolLoopResult(r.val, invocations,
                                                      IterationsReported)))
                          /\ UNCHANGED <<request, l_pending, iteration>>
                     ELSE /\ request' =
                               [request EXCEPT !.messages =
                                   PushMessage(@, Message("Assistant",
                                                          r.val.output_text))]
                          /\ l_pending' = r.val.tool_calls
                          /\ l_pc' = "exec"
                          /\ UNCHANGED <<l_result, iteration>>
    /\ UNCHANGED <<l_op, script, options, use_streaming, invocations, l_sent,
                   l_exec>>
    /\ UNCHANGED <<routerVars, streamVars, fixtureVars, collectVars,
                   sharedVars>>
    /\ UNCHANGED <<parseVars, bodyVars>>

ExecErrorWithoutName(call, e) == Err(Provider(e))

\* map_err(..)?: what an executor failure makes the loop return
ExecError(call, e) == Err(Provider(ExecFailedMessage(call.name, e)))

PushFront(invs, inv) == <<inv>> \o invs

\* invocations.push(..)
Push(invs, inv) == Append(invs, inv)

NextIterationStuck(i) == i

\* the step of `for iteration in 0..options.max_iterations`
NextIteration(i) == i + 1

LoopExecDropsCalls ==
    /\ l_pc = "exec"
    /\ l_pending # <<>>
    /\ l_pending' = <<>>
    /\ iteration' = iteration + 1
    /\ l_pc' = "top"
    /\ UNCHANGED <<l_op, script, request, options, use_streaming, invocations,
                   l_result, l_sent, l_responses, l_exec>>
    /\ UNCHANGED <<routerVars, streamVars, fixtureVars, collectVars,
                   sharedVars>>
    /\ UNCHANGED l_failed
    /\ UNCHANGED <<parseVars, bodyVars>>

\* The body of `for call in response.tool_calls` for the next call: the
\* executor runs; its failure ends the loop, its output is recorded as an
\* invocation and a Tool message.  After the last call the iteration ends.
LoopExec ==
    /\ l_pc = "exec"
    /\ l_pending # <<>>
    /\ LET call == Head(l_pending) IN
       \E out \in ExecOutcomes(call.name, call.arguments) :
          /\ l_exec' = Append(l_exec, [name |-> call.name,
                                       input |-> call.arguments,
                                       result |-> out])
          /\ IF ~out.ok
             THEN /\ l_pc' = "done"
                  /\ l_result' = Some(ExecError(call, out.err))
                  /\ UNCHANGED <<request, invocations, l_pending, iteration>>
             ELSE /\ invocations' =
                       Push(invocations, ToolInvocation(call, out.val))
                  /\ request' =
                       [request EXCEPT !.messages =
                           PushMessage(@, Message("Tool",
                               ToolMessageContent(call, out.val)))]
                  /\ l_pending' = Tail(l_pending)
                  /\ IF Tail(l_pending) = <<>>
                     THEN /\ iteration' = NextIteration(iteration)
                          /\ l_pc' = "top"
                     ELSE /\ UNCHANGED iteration
                          /\ l_pc' = "exec"
                  /\ UNCHANGED l_result
    /\ UNCHANGED <<l_op, script, options, use_streaming, l_sent, l_responses>>
    /\ UNCHANGED <<routerVars, streamVars, fixtureVars, collectVars,
                   sharedVars>>
    /\ UNCHANGED l_failed
    /\ UNCHANGED <<parseVars, bodyVars>>

\* The range of the for loop is used up.
LoopExceeded ==
    /\ l_pc = "top"
    /\ iteration \notin IterationRange
    /\ l_pc' = "done"
    /\ l_result' = Some(Err(Provider(ExceededMessage(options.max_iterations))))
    /\ UNCHANGED <<l_op, script, request, options, use_streaming, iteration,
                   invocations, l_pending, l_sent, l_responses, l_exec>>
    /\ UNCHANGED <<routerVars, streamVars, fixtureVars, collectVars,
                   sharedVars>>
    /\ UNCHANGED l_failed
    /\ UNCHANGED <<parseVars, bodyVars>>

LoopNext ==
    \/ ClientCall
    \/ ClientReturn
    \/ LoopEntry
    \/ LoopSend
    \/ LoopReceive
    \/ LoopExec
    \/ LoopExceeded

\* the steps of run_tool_loop
ToolLoopNext ==
    \/ LoopEntry
    \/ LoopSend
    \/ LoopReceive
    \/ LoopExec
    \/ LoopExceeded

(***************************************************************************)
(* SSE streams of the adapters (chat_stream of forgeai-adapter-openai,     *)
(* -anthropic and -gemini).                                                *)
(*                                                                         *)
(* The body is a sequence of wire symbols.  A symbol is a byte (LF, CR,    *)
(* space, the two bytes C3 A9 of one two-byte character) or a run of       *)
(* bytes that is never split here: a field prefix, an event name, a piece  *)
(* of JSON text.                                                           *)
(***************************************************************************)
LF == "\n"

CR == "\r"

RECURSIVE Utf8Valid(_)
\* std::str::from_utf8 succeeds: no two-byte character is cut
Utf8Valid(chunk) ==
    IF chunk = <<>> THEN TRUE
    ELSE IF Head(chunk) = "C3"
    THEN Len(chunk) >= 2 /\ chunk[2] = "A9" /\ Utf8Valid(Tail(Tail(chunk)))
    ELSE Head(chunk) # "A9" /\ Utf8Valid(Tail(chunk))

RECURSIVE Utf8Decode(_)
\* the characters of a valid chunk
Utf8Decode(chunk) ==
    IF chunk = <<>> THEN <<>>
    ELSE IF Head(chunk) = "C3"
    THEN <<"U+E9">> \o Utf8Decode(Tail(Tail(chunk)))
    ELSE <<Head(chunk)>> \o Utf8Decode(Tail(chunk))

RECURSIVE Find(_, _, _)
\* str::find from index i: the index of the first c, 0 when there is none
Find(text, c, i) ==
    IF i > Len(text) THEN 0
    ELSE IF text[i] = c THEN i
    ELSE Find(text, c, i + 1)

\* if line.ends_with('\r') { line.pop(); }
PopCR(line) ==
    IF line # <<>> /\ line[Len(line)] = CR
    THEN SubSeq(line, 1, Len(line) - 1)
    ELSE line

\* str::strip_prefix
StripPrefix(line, prefix) ==
    IF line # <<>> /\ Head(line) = prefix THEN Some(Tail(line)) ELSE None

RECURSIVE Join(_, _)
\* [String]::join
Join(lines, sep) ==
    IF lines = <<>> THEN <<>>
    ELSE IF Len(lines) = 1 THEN lines[1]
    ELSE lines[1] \o <<sep>> \o Join(Tail(lines), sep)

\* JSON documents of the payload menu.
OaText(text) ==
    JObj([choices |-> JArr(<<JObj([delta |-> JObj([content |-> JStr(text)])])>>)])

OaFull ==
    JObj([usage |-> JObj([prompt_tokens |-> JNum(10),
                          completion_tokens |-> JNum(2),
                          total_tokens |-> JNum(12)]),
          choices |-> JArr(<<JObj([delta |-> JObj([
              content |-> JStr("b"),
              tool_calls |-> JArr(<<JObj([
                  id |-> JStr("call-1"),
                  function |-> JObj([name |-> JStr("t1"),
                                     arguments |-> JStr("{}")])])>>)])])>>)])

AnText(text) ==
    JObj([type |-> JStr("content_block_delta"),
          delta |-> JObj([text |-> JStr(text)])])

AnStop == JObj([type |-> JStr("message_stop")])

AnFull ==
    JObj([content_block |-> JObj([type |-> JStr("tool_use"),
                                  id |-> JStr("toolu-1"),
                                  name |-> JStr("t1"),
                                  input |-> JObj(<<>>)]),
          message |-> JObj([usage |-> JObj([input_tokens |-> JNum(9)])])])

GeText(text) ==
    JObj([candidates |-> JArr(<<JObj([content |->
        JObj([parts |-> JArr(<<JObj([text |-> JStr(text)])>>)])])>>)])

GeFull ==
    JObj([usageMetadata |-> JObj([promptTokenCount |-> JNum(9),
                                  candidatesTokenCount |-> JNum(2),
                                  totalTokenCount |-> JNum(11)]),
          candidates |-> JArr(<<JObj([
              finishReason |-> JStr("STOP"),
              content |-> JObj([parts |-> JArr(<<
                  JObj([text |-> JStr("b")]),
                  JObj([functionCall |-> JObj([
                      name |-> JStr("t1"),
                      args |-> JObj([tz |-> JStr("UTC")])])])>>)])])>>)])

\* serde_json::from_str on a payload: the document the text spells, None for
\* text that is not JSON.
JsonParse(payload) ==
    CASE payload = <<"{oa_text:a}">> -> Some(OaText("a"))
      [] payload = <<"{oa_text:", "U+E9", "}">> -> Some(OaText("U+E9"))
      [] payload = <<"{oa_full}">> -> Some(OaFull)
      [] payload = <<"{an_text:a}">> -> Some(AnText("a"))
      [] payload = <<"{an_text:", "U+E9", "}">> -> Some(AnText("U+E9"))
      [] payload = <<"{an_stop}">> -> Some(AnStop)
      [] payload = <<"{an_full}">> -> Some(AnFull)
      [] payload = <<"{ge_text:a}">> -> Some(GeText("a"))
      [] payload = <<"{ge_text:", "U+E9", "}">> -> Some(GeText("U+E9"))
      [] payload = <<"{ge_full}">> -> Some(GeFull)
      [] payload = <<"{}">> -> Some(JObj(<<>>))
      [] payload = <<"{tz:UTC}">> -> Some(JObj([tz |-> JStr("UTC")]))
      [] payload = <<"{tz:CET}">> -> Some(JObj([tz |-> JStr("CET")]))
      [] payload = <<"{error:{message:boom}}">> ->
            Some(JObj([error |-> JObj([message |-> JStr("boom")])]))
      [] payload = <<"{error:5}">> -> Some(JObj([error |-> JNum(5)]))
      [] OTHER -> None

InvalidPayload == Provider("invalid stream payload: expected value")

\* `as u32` of a counter; the counters of the payload menu are far below 2^32
AsU32(n) == n

\* u32::saturating_add, for counters far below 2^32
SaturatingAdd(a, b) == a + b

\* ---- OpenAI ----
\* extract_usage: every counter must be present
OpenAiExtractUsage(raw) ==
    IF /\ raw.some
       /\ AsU64(Get(raw.val, "prompt_tokens")).some
       /\ AsU64(Get(raw.val, "completion_tokens")).some
       /\ AsU64(Get(raw.val, "total_tokens")).some
    THEN Some(Usage(AsU32(AsU64(Get(raw.val, "prompt_tokens")).val),
                    AsU32(AsU64(Get(raw.val, "completion_tokens")).val),
                    AsU32(AsU64(Get(raw.val, "total_tokens")).val)))
    ELSE None

\* one ToolCallDelta per entry of delta.tool_calls
OpenAiToolCallDeltas(choice) ==
    LET calls == UnwrapOr(AsArray(GetIn(Get(choice, "delta"), "tool_calls")),
                          <<>>)
    IN [i \in 1..Len(calls) |->
           ToolCallDelta(UnwrapOr(AsStr(Get(calls[i], "id")), ""), calls[i])]

\* the events of one choice: its text, then its tool calls
OpenAiChoiceEvents(choice) ==
    LET content == AsStr(GetIn(Get(choice, "delta"), "content")) IN
    (IF content.some /\ content.val # "" THEN <<TextDelta(content.val)>>
     ELSE <<>>)
    \o OpenAiToolCallDeltas(choice)

RECURSIVE OpenAiChoicesEvents(_)
OpenAiChoicesEvents(choices) ==
    IF choices = <<>> THEN <<>>
    ELSE OpenAiChoiceEvents(Head(choices)) \o OpenAiChoicesEvents(Tail(choices))

\* parse_stream_payload after the JSON text is parsed: the events of a record
OpenAiStreamEvents(value) ==
    LET usage == OpenAiExtractUsage(Get(value, "usage")) IN
    (IF usage.some THEN <<UsageEvent(usage.val)>> ELSE <<>>)
    \o OpenAiChoicesEvents(UnwrapOr(AsArray(Get(value, "choices")), <<>>))

\* parse_stream_payload
OpenAiParseStreamPayload(payload) ==
    IF ~JsonParse(payload).some
    THEN Err(InvalidPayload)
    ELSE Ok(OpenAiStreamEvents(JsonParse(payload).val))

\* What one line makes the generator do: the events to yield, whether the
\* line is the [DONE] literal, or the error that ends the stream.
NoEvents == [events |-> <<>>, literal_done |-> FALSE, err |-> None]

LiteralDone == [events |-> <<Done>>, literal_done |-> TRUE, err |-> None]

Parsed(r) ==
    IF r.ok THEN [events |-> r.val, literal_done |-> FALSE, err |-> None]
    ELSE [events |-> <<>>, literal_done |-> FALSE, err |-> Some(r.err)]

\* the body of the inner while loop for one line
OpenAiLine(raw) ==
    LET line == PopCR(raw) IN
    IF Trim(line) = <<>> THEN NoEvents
    ELSE IF ~StripPrefix(line, "data:").some THEN NoEvents
    ELSE LET payload == Trim(StripPrefix(line, "data:").val) IN
         IF payload = <<"[DONE]">> THEN LiteralDone
         ELSE Parsed(OpenAiParseStreamPayload(payload))

\* the flush of the unterminated last line after the upstream closed
OpenAiFlush(rest) ==
    IF Trim(rest) = <<>> THEN NoEvents
    ELSE IF ~StripPrefix(Trim(rest), "data:").some THEN NoEvents
    ELSE LET payload == Trim(StripPrefix(Trim(rest), "data:").val) IN
         IF payload = <<"[DONE]">> THEN LiteralDone
         ELSE Parsed(OpenAiParseStreamPayload(payload))

\* ---- Gemini ----
RECURSIVE GeminiParts(_)
\* flat_map over the candidates: all parts, in order
GeminiParts(candidates) ==
    IF candidates = <<>> THEN <<>>
    ELSE UnwrapOr(AsArray(GetIn(Get(Head(candidates), "content"), "parts")),
                  <<>>)
         \o GeminiParts(Tail(candidates))

RECURSIVE GeminiPartsText(_)
GeminiPartsText(parts) ==
    IF parts = <<>> THEN ""
    ELSE UnwrapOr(AsStr(Get(Head(parts), "text")), "")
         \o GeminiPartsText(Tail(parts))

\* extract_text_from_payload
GeminiExtractText(value) ==
    GeminiPartsText(
        GeminiParts(UnwrapOr(AsArray(Get(value, "candidates")), <<>>)))

RECURSIVE GeminiPartsToolCalls(_)
GeminiPartsToolCalls(parts) ==
    IF parts = <<>> THEN <<>>
    ELSE LET fc == Get(Head(parts), "functionCall") IN
         (IF fc.some
          THEN <<[id |-> UnwrapOr(AsStr(Get(fc.val, "id")), ""),
                  name |-> UnwrapOr(AsStr(Get(fc.val, "name")), ""),
                  arguments |-> UnwrapOr(Get(fc.val, "args"), JNull)]>>
          ELSE <<>>)
         \o GeminiPartsToolCalls(Tail(parts))

\* extract_tool_calls_from_payload
GeminiExtractToolCalls(value) ==
    GeminiPartsToolCalls(
        GeminiParts(UnwrapOr(AsArray(Get(value, "candidates")), <<>>)))

\* extract_usage
GeminiExtractUsage(raw) ==
    IF ~raw.some THEN None
    ELSE LET input == AsU32(UnwrapOr(AsU64(Get(raw.val, "promptTokenCount")), 0))
             output ==
                 AsU32(UnwrapOr(AsU64(Get(raw.val, "candidatesTokenCount")), 0))
             total == AsU64(Get(raw.val, "totalTokenCount"))
         IN Some(Usage(input, output,
                       IF total.some THEN AsU32(total.val)
                       ELSE SaturatingAdd(input, output)))

\* the first candidate has a finishReason field
GeminiHasFinishReason(value) ==
    LET candidates == UnwrapOr(AsArray(Get(value, "candidates")), <<>>) IN
    candidates # <<>> /\ Get(candidates[1], "finishReason").some

GeminiStreamEventsUsageFirst(value) ==
    LET text == GeminiExtractText(value)
        calls == GeminiExtractToolCalls(value)
        usage == GeminiExtractUsage(Get(value, "usageMetadata"))
    IN (IF usage.some THEN <<UsageEvent(usage.val)>> ELSE <<>>)
       \o (IF text # "" THEN <<TextDelta(text)>> ELSE <<>>)
       \o [i \in 1..Len(calls) |->
              ToolCallDelta(calls[i].id,
                            JObj([name |-> JStr(calls[i].name),
                                  arguments |-> calls[i].arguments]))]
       \o (IF GeminiHasFinishReason(value) THEN <<Done>> ELSE <<>>)

\* parse_stream_payload after the JSON text is parsed: the events of a record
GeminiStreamEvents(value) ==
    LET text == GeminiExtractText(value)
        calls == GeminiExtractToolCalls(value)
        usage == GeminiExtractUsage(Get(value, "usageMetadata"))
    IN (IF text # "" THEN <<TextDelta(text)>> ELSE <<>>)
       \o [i \in 1..Len(calls) |->
              ToolCallDelta(calls[i].id,
                            JObj([name |-> JStr(calls[i].name),
                                  arguments |-> calls[i].arguments]))]
       \o (IF usage.some THEN <<UsageEvent(usage.val)>> ELSE <<>>)
       \o (IF GeminiHasFinishReason(value) THEN <<Done>> ELSE <<>>)

\* parse_stream_payload
GeminiParseStreamPayload(payload) ==
    IF ~JsonParse(payload).some
    THEN Err(InvalidPayload)
    ELSE Ok(GeminiStreamEvents(JsonParse(payload).val))

GeminiLine(raw) ==
    LET line == PopCR(raw) IN
    IF Trim(line) = <<>> THEN NoEvents
    ELSE IF ~StripPrefix(line, "data:").some THEN NoEvents
    ELSE LET payload == Trim(StripPrefix(line, "data:").val) IN
         IF payload = <<"[DONE]">> THEN LiteralDone
         ELSE Parsed(GeminiParseStreamPayload(payload))

GeminiFlush(rest) ==
    IF Trim(rest) = <<>> THEN NoEvents
    ELSE IF ~StripPrefix(Trim(rest), "data:").some THEN NoEvents
    ELSE LET payload == Trim(StripPrefix(Trim(rest), "data:").val) IN
         IF payload = <<"[DONE]">> THEN LiteralDone
         ELSE Parsed(GeminiParseStreamPayload(payload))

\* ---- Anthropic ----
\* extract_usage: absent counters count as 0, the total is their sum
AnthropicExtractUsage(raw) ==
    IF ~raw.some THEN None
    ELSE LET input == AsU32(UnwrapOr(AsU64(Get(raw.val, "input_tokens")), 0))
             output == AsU32(UnwrapOr(AsU64(Get(raw.val, "output_tokens")), 0))
         IN Some(Usage(input, output, SaturatingAdd(input, output)))

\* parse_stream_payload after the JSON text is parsed: the events of a record
AnthropicStreamEvents(value, event) ==
    LET event_type ==
            IF event.some THEN event.val
            ELSE UnwrapOr(AsStr(Get(value, "type")), "")
        usage ==
            IF Get(value, "usage").some
            THEN AnthropicExtractUsage(Get(value, "usage"))
            ELSE AnthropicExtractUsage(GetIn(Get(value, "message"), "usage"))
        text == AsStr(GetIn(Get(value, "delta"), "text"))
        block == Get(value, "content_block")
    IN (IF usage.some THEN <<UsageEvent(usage.val)>> ELSE <<>>)
       \o (IF event_type = "content_block_delta"
              /\ text.some /\ text.val # ""
           THEN <<TextDelta(text.val)>> ELSE <<>>)
       \o (IF event_type = "content_block_start" /\ block.some
              /\ AsStr(Get(block.val, "type")) = Some("tool_use")
           THEN <<ToolCallDelta(UnwrapOr(AsStr(Get(block.val, "id")), ""),
                                block.val)>>
           ELSE <<>>)
       \o (IF event_type = "message_stop" THEN <<Done>> ELSE <<>>)

\* parse_stream_payload(payload, event)
AnthropicParseStreamPayload(payload, event) ==
    IF ~JsonParse(payload).some
    THEN Err(InvalidPayload)
    ELSE Ok(AnthropicStreamEvents(JsonParse(payload).val, event))

\* What one line makes the Anthropic generator do: as above, with the pending
\* record (event_name, data_lines) it leaves behind.
\* the body of the inner while loop for one line, on the locals name
\* (event_name) and lines (data_lines): what it yields and what it leaves in
\* the locals
AnthropicLineOn(raw, name, lines) ==
    LET line == PopCR(raw) IN
    IF line = <<>>
    THEN IF lines # <<>>
         THEN [step |-> Parsed(AnthropicParseStreamPayload(
                                   Join(lines, LF), name)),
               event_name |-> None, data_lines |-> <<>>]
         ELSE [step |-> NoEvents, event_name |-> name, data_lines |-> lines]
    ELSE IF StripPrefix(line, "event:").some
    THEN [step |-> NoEvents,
          event_name |-> Some(Concat(Trim(StripPrefix(line, "event:").val))),
          data_lines |-> lines]
    ELSE IF StripPrefix(line, "data:").some
    THEN [step |-> NoEvents, event_name |-> name,
          data_lines |-> Append(lines, Trim(StripPrefix(line, "data:").val))]
    ELSE [step |-> NoEvents, event_name |-> name, data_lines |-> lines]

AnthropicLine(raw) == AnthropicLineOn(raw, event_name, data_lines)

\* the flush of the pending record after the upstream closed
AnthropicFlushOn(name, lines) ==
    IF lines # <<>>
    THEN Parsed(AnthropicParseStreamPayload(Join(lines, LF), name))
    ELSE NoEvents

AnthropicFlush == AnthropicFlushOn(event_name, data_lines)

\* ---- the upstream bodies ----
\* The lines an upstream can send to each adapter, without their terminator.
Lines(p) ==
    CASE p = "openai" ->
            {<<>>, <<"data:", " ", "[DONE]">>, <<"data:", " ", "{oa_text:a}">>,
             <<"data:", "{oa_text:", "C3", "A9", "}">>,
             <<"data:", " ", "{oa_full}">>, <<"data:", " ", "{bad">>}
      [] p = "gemini" ->
            {<<>>, <<"data:", " ", "[DONE]">>, <<"data:", " ", "{ge_text:a}">>,
             <<"data:", "{ge_text:", "C3", "A9", "}">>,
             <<"data:", " ", "{ge_full}">>, <<"data:", " ", "{bad">>}
      [] p = "anthropic" ->
            {<<>>, <<"event:", " ", "message_stop">>,
             <<"event:", " ", "content_block_start">>,
             <<"data:", " ", "{an_stop}">>, <<"data:", " ", "{an_text:a}">>,
             <<"data:", "{an_text:", "C3", "A9", "}">>,
             <<"data:", " ", "{an_full}">>, <<"data:", " ", "{bad">>}

RECURSIVE Terminated(_, _)
\* the lines, each followed by the line terminator
Terminated(lines, eol) ==
    IF lines = <<>> THEN <<>>
    ELSE Head(lines) \o eol \o Terminated(Tail(lines), eol)

\* The bodies: up to MaxLines lines ended by LF or by CR LF, the last line
\* with or without its terminator.
Bodies(p) ==
    {Terminated(ls, eol) \o last :
        ls \in UNION {[1..n -> Lines(p)] : n \in 0..(MaxLines - 1)},
        eol \in {<<LF>>, <<CR, LF>>},
        last \in Lines(p) \cup {l \o <<LF>> : l \in Lines(p)}}

\* Bodies for the division into chunks: a text with a two-byte character, a
\* payload of several events, the terminal record, the blank line.
ChunkLines(p) ==
    CASE p = "openai" ->
            {<<>>, <<"data:", " ", "[DONE]">>,
             <<"data:", "{oa_text:", "C3", "A9", "}">>,
             <<"data:", " ", "{oa_full}">>}
      [] p = "gemini" ->
            {<<>>, <<"data:", " ", "[DONE]">>,
             <<"data:", "{ge_text:", "C3", "A9", "}">>,
             <<"data:", " ", "{ge_full}">>}
      [] p = "anthropic" ->
            {<<>>, <<"event:", " ", "content_block_delta">>,
             <<"data:", "{an_text:", "C3", "A9", "}">>,
             <<"data:", " ", "{an_stop}">>}

ChunkBodies(p) ==
    {Terminated(ls, eol) \o last :
        ls \in UNION {[1..n -> ChunkLines(p)] : n \in 0..(MaxLines - 1)},
        eol \in {<<LF>>, <<CR, LF>>},
        last \in ChunkLines(p) \cup {l \o <<LF>> : l \in ChunkLines(p)}}

\* chat_stream returned the stream of one of these bodies.
ChunkInit ==
    /\ provider \in {"openai", "anthropic", "gemini"}
    /\ upstream \in ChunkBodies(provider)
    /\ u_pos = 0
    /\ buffer = <<>>
    /\ saw_done = FALSE
    /\ event_name = None
    /\ data_lines = <<>>
    /\ s_pc = "read"
    /\ s_queue = <<>>
    /\ s_resume = "lines"
    /\ s_out = <<>>
    /\ s_caller = "eager"
    /\ RouterIdle /\ LoopIdle /\ FixtureIdle /\ CollectIdle
    /\ SharedIdle
    /\ ParseIdle /\ BodyIdle

\* Bodies for the in-stream errors: a payload that is not JSON among a text
\* with a two-byte character, a payload of several events and the blank line.
FailLines(p) ==
    CASE p = "openai" ->
            {<<>>, <<"data:", " ", "{bad">>,
             <<"data:", "{oa_text:", "C3", "A9", "}">>,
             <<"data:", " ", "{oa_full}">>}
      [] p = "gemini" ->
            {<<>>, <<"data:", " ", "{bad">>,
             <<"data:", "{ge_text:", "C3", "A9", "}">>,
             <<"data:", " ", "{ge_full}">>}
      [] p = "anthropic" ->
            {<<>>, <<"data:", " ", "{bad">>,
             <<"data:", "{an_text:", "C3", "A9", "}">>,
             <<"data:", " ", "{an_stop}">>}

FailBodies(p) ==
    {Terminated(ls, eol) \o last :
        ls \in UNION {[1..n -> FailLines(p)] : n \in 0..(MaxLines - 1)},
        eol \in {<<LF>>, <<CR, LF>>},
        last \in FailLines(p) \cup {l \o <<LF>> : l \in FailLines(p)}}

\* chat_stream returned the stream of one of these bodies.
FailInit ==
    /\ provider \in {"openai", "anthropic", "gemini"}
    /\ upstream \in FailBodies(provider)
    /\ u_pos = 0
    /\ buffer = <<>>
    /\ saw_done = FALSE
    /\ event_name = None
    /\ data_lines = <<>>
    /\ s_pc = "read"
    /\ s_queue = <<>>
    /\ s_resume = "lines"
    /\ s_out = <<>>
    /\ s_caller = "eager"
    /\ RouterIdle /\ LoopIdle /\ FixtureIdle /\ CollectIdle
    /\ SharedIdle
    /\ ParseIdle /\ BodyIdle

\* chat_stream got a 2xx answer and returned the stream; nothing is read yet.
StreamInit ==
    /\ provider \in {"openai", "anthropic", "gemini"}
    /\ upstream \in Bodies(provider)
    /\ u_pos = 0
    /\ buffer = <<>>
    /\ saw_done = FALSE
    /\ event_name = None
    /\ data_lines = <<>>
    /\ s_pc = "read"
    /\ s_queue = <<>>
    /\ s_resume = "lines"
    /\ s_out = <<>>
    /\ s_caller = "eager"
    /\ RouterIdle /\ LoopIdle /\ FixtureIdle /\ CollectIdle
    /\ SharedIdle
    /\ ParseIdle /\ BodyIdle

\* The body of try_stream! is a generator: it runs only inside the caller's
\* poll of the stream and is suspended at every yield.
RunningDetached == s_caller # "unused"

Running == s_caller \in {"eager", "polling"}

\* The poll returns an item (or the end of the stream) to the caller.
Returned == IF s_caller = "eager" THEN "eager" ELSE "holding"

\* bytes.next().await yields a chunk: any non-empty run of the bytes that are
\* left.  A chunk that is not valid UTF-8 on its own ends the stream with a
\* Transport error; a valid one is appended to the buffer.
StreamReadChunk ==
    /\ s_pc = "read"
    /\ Running
    /\ u_pos < Len(upstream)
    /\ \E n \in 1..(Len(upstream) - u_pos) :
          LET chunk == SubSeq(upstream, u_pos + 1, u_pos + n) IN
          /\ u_pos' = u_pos + n
          /\ IF Utf8Valid(chunk)
             THEN /\ buffer' = buffer \o Utf8Decode(chunk)
                  /\ s_pc' = "lines"
                  /\ s_out' = s_out
                  /\ s_caller' = s_caller
             ELSE /\ buffer' = buffer
                  /\ s_pc' = "end"
                  /\ s_caller' = Returned
                  /\ s_out' = Append(s_out,
                        Err(Transport("invalid utf8 stream chunk: incomplete")))
    /\ UNCHANGED <<provider, upstream, saw_done, event_name, data_lines,
                   s_queue, s_resume>>
    /\ UNCHANGED <<routerVars, loopVars, fixtureVars, collectVars, sharedVars>>
    /\ UNCHANGED <<parseVars, bodyVars>>

\* bytes.next().await yields an error: the stream ends with Transport.
StreamReadError ==
    /\ s_pc = "read"
    /\ Running
    /\ s_pc' = "end"
    /\ s_caller' = Returned
    /\ s_out' = Append(s_out, Err(Transport("stream chunk error: reset")))
    /\ UNCHANGED <<provider, upstream, u_pos, buffer, saw_done, event_name,
                   data_lines, s_queue, s_resume>>
    /\ UNCHANGED <<routerVars, loopVars, fixtureVars, collectVars, sharedVars>>
    /\ UNCHANGED <<parseVars, bodyVars>>

\* bytes.next().await yields None: the upstream closed.
StreamReadClosed ==
    /\ s_pc = "read"
    /\ Running
    /\ u_pos = Len(upstream)
    /\ s_pc' = "eof"
    /\ UNCHANGED <<provider, upstream, u_pos, buffer, saw_done, event_name,
                   data_lines, s_queue, s_resume, s_out, s_caller>>
    /\ UNCHANGED <<routerVars, loopVars, fixtureVars, collectVars, sharedVars>>
    /\ UNCHANGED <<parseVars, bodyVars>>

\* what the line does, by adapter
LineStep(raw) ==
    CASE provider = "openai" -> OpenAiLine(raw)
      [] provider = "gemini" -> GeminiLine(raw)
      [] provider = "anthropic" -> AnthropicLine(raw).step

DispatchSkipsError(step, next) ==
    /\ saw_done' = (saw_done \/ step.literal_done)
    /\ IF step.err.some
       THEN /\ s_out' = Append(s_out, Err(step.err.val))
            /\ s_pc' = next
            /\ s_caller' = Returned
            /\ UNCHANGED <<s_queue, s_resume>>
       ELSE /\ s_out' = s_out
            /\ s_caller' = s_caller
            /\ s_queue' = step.events
            /\ s_resume' = next
            /\ s_pc' = IF step.events = <<>> THEN next ELSE "yield"

\* The generator goes on with what a line or a flush gave: it ends on an
\* error, yields the events if there are any, and else continues at `next`.
Dispatch(step, next) ==
    /\ saw_done' = (saw_done \/ step.literal_done)
    /\ IF step.err.some
       THEN /\ s_out' = Append(s_out, Err(step.err.val))
            /\ s_pc' = "end"
            /\ s_caller' = Returned
            /\ UNCHANGED <<s_queue, s_resume>>
       ELSE /\ s_out' = s_out
            /\ s_caller' = s_caller
            /\ s_queue' = step.events
            /\ s_resume' = next
            /\ s_pc' = IF step.events = <<>> THEN next ELSE "yield"

StreamLineDropsPartial ==
    /\ s_pc = "lines"
    /\ Running
    /\ LET line_end == Find(buffer, LF, 1) IN
       IF line_end = 0
       THEN /\ s_pc' = "read"
            /\ buffer' = <<>>
            /\ UNCHANGED <<saw_done, event_name, data_lines, s_queue,
                           s_resume, s_out, s_caller>>
       ELSE LET raw == SubSeq(buffer, 1, line_end - 1) IN
            /\ buffer' = SubSeq(buffer, line_end + 1, Len(buffer))
            /\ IF provider = "anthropic"
               THEN /\ event_name' = AnthropicLine(raw).event_name
                    /\ data_lines' = AnthropicLine(raw).data_lines
               ELSE UNCHANGED <<event_name, data_lines>>
            /\ Dispatch(LineStep(raw), "lines")
    /\ UNCHANGED <<provider, upstream, u_pos>>
    /\ UNCHANGED <<routerVars, loopVars, fixtureVars, collectVars, sharedVars>>
    /\ UNCHANGED <<parseVars, bodyVars>>

\* One round of `while let Some(line_end) = buffer.find('\n')`: the first
\* line is taken off the buffer and handled; without a line feed in the
\* buffer the generator goes back to reading.
StreamLine ==
    /\ s_pc = "lines"
    /\ Running
    /\ LET line_end == Find(buffer, LF, 1) IN
       IF line_end = 0
       THEN /\ s_pc' = "read"
            /\ UNCHANGED <<buffer, saw_done, event_name, data_lines, s_queue,
                           s_resume, s_out, s_caller>>
       ELSE LET raw == SubSeq(buffer, 1, line_end - 1) IN
            /\ buffer' = SubSeq(buffer, line_end + 1, Len(buffer))
            /\ IF provider = "anthropic"
               THEN /\ event_name' = AnthropicLine(raw).event_name
                    /\ data_lines' = AnthropicLine(raw).data_lines
               ELSE UNCHANGED <<event_name, data_lines>>
            /\ Dispatch(LineStep(raw), "lines")
    /\ UNCHANGED <<provider, upstream, u_pos>>
    /\ UNCHANGED <<routerVars, loopVars, fixtureVars, collectVars, sharedVars>>
    /\ UNCHANGED <<parseVars, bodyVars>>

\* if matches!(event, StreamEvent::Done) { saw_done = true; } - a statement
\* of the Anthropic and Gemini generators only
YieldSetsSawDone(event) ==
    provider \in {"anthropic", "gemini"} /\ event = Done

\* yield event: the consumer receives the next event of the payload in hand.
StreamYield ==
    /\ s_pc = "yield"
    /\ Running
    /\ s_queue # <<>>
    /\ s_caller' = Returned
    /\ s_out' = Append(s_out, Ok(Head(s_queue)))
    /\ saw_done' = (saw_done \/ YieldSetsSawDone(Head(s_queue)))
    /\ s_queue' = Tail(s_queue)
    /\ s_pc' = IF Tail(s_queue) = <<>> THEN s_resume ELSE "yield"
    /\ UNCHANGED <<provider, upstream, u_pos, buffer, event_name, data_lines,
                   s_resume>>
    /\ UNCHANGED <<routerVars, loopVars, fixtureVars, collectVars, sharedVars>>
    /\ UNCHANGED <<parseVars, bodyVars>>

\* what the flush after the close does, by adapter
FlushStep ==
    CASE provider = "openai" -> OpenAiFlush(buffer)
      [] provider = "gemini" -> GeminiFlush(buffer)
      [] provider = "anthropic" -> AnthropicFlush

\* After the read loop: what is still pending is handled once.
StreamFlush ==
    /\ s_pc = "eof"
    /\ Running
    /\ Dispatch(FlushStep, "final")
    /\ UNCHANGED <<provider, upstream, u_pos, buffer, event_name, data_lines>>
    /\ UNCHANGED <<routerVars, loopVars, fixtureVars, collectVars, sharedVars>>
    /\ UNCHANGED <<parseVars, bodyVars>>

FinalDoneAlways == <<Ok(Done)>>

\* if !saw_done { yield StreamEvent::Done; }
FinalDone == IF ~saw_done THEN <<Ok(Done)>> ELSE <<>>

\* The end of the generator.
StreamFinish ==
    /\ s_pc = "final"
    /\ Running
    /\ s_out' = s_out \o FinalDone
    /\ s_pc' = "end"
    /\ s_caller' = Returned
    /\ UNCHANGED <<provider, upstream, u_pos, buffer, saw_done, event_name,
                   data_lines, s_queue, s_resume>>
    /\ UNCHANGED <<routerVars, loopVars, fixtureVars, collectVars, sharedVars>>
    /\ UNCHANGED <<parseVars, bodyVars>>

StreamNext ==
    \/ StreamReadChunk
    \/ StreamReadError
    \/ StreamReadClosed
    \/ StreamLine
    \/ StreamYield
    \/ StreamFlush
    \/ StreamFinish

\* ---- a caller that holds the stream and advances it as it likes ----
\* Bodies for the caller: a text, a payload of several events, the terminal
\* record, each line ended by a line feed.
CallerLines(p) ==
    CASE p = "openai" ->
            {<<"data:", "[DONE]">>, <<"data:", "{oa_text:a}">>,
             <<"data:", "{oa_full}">>}
      [] p = "gemini" ->
            {<<"data:", "[DONE]">>, <<"data:", "{ge_text:a}">>,
             <<"data:", "{ge_full}">>}
      [] p = "anthropic" ->
            {<<>>, <<"data:", "{an_text:a}">>, <<"data:", "{an_full}">>}

CallerBodies(p) ==
    {Terminated(ls, <<LF>>) :
        ls \in UNION {[1..n -> CallerLines(p)] : n \in 1..MaxLines}}

\* chat_stream returned the stream to the caller, who has not polled it.
CallerInit ==
    /\ provider \in {"openai", "anthropic", "gemini"}
    /\ upstream \in CallerBodies(provider)
    /\ u_pos = 0
    /\ buffer = <<>>
    /\ saw_done = FALSE
    /\ event_name = None
    /\ data_lines = <<>>
    /\ s_pc = "read"
    /\ s_queue = <<>>
    /\ s_resume = "lines"
    /\ s_out = <<>>
    /\ s_caller = "holding"
    /\ RouterIdle /\ LoopIdle /\ FixtureIdle /\ CollectIdle
    /\ SharedIdle
    /\ ParseIdle /\ BodyIdle

\* stream.next().await: the caller polls for the next item.
CallerPoll ==
    /\ s_caller = "holding"
    /\ s_caller' = "polling"
    /\ UNCHANGED <<provider, upstream, u_pos, buffer, saw_done, event_name,
                   data_lines, s_pc, s_queue, s_resume, s_out>>
    /\ UNCHANGED <<routerVars, loopVars, fixtureVars, collectVars, sharedVars>>
    /\ UNCHANGED <<parseVars, bodyVars>>

\* The caller drops the stream, between two polls or while a poll is pending:
\* the generator, its locals and the response body are dropped with it.
CallerDrop ==
    /\ s_caller \in {"holding", "polling"}
    /\ s_caller' = "dropped"
    /\ UNCHANGED <<provider, upstream, u_pos, buffer, saw_done, event_name,
                   data_lines, s_pc, s_queue, s_resume, s_out>>
    /\ UNCHANGED <<routerVars, loopVars, fixtureVars, collectVars, sharedVars>>
    /\ UNCHANGED <<parseVars, bodyVars>>

\* A poll of the finished generator returns None.
StreamEnded ==
    /\ s_pc = "end"
    /\ s_caller = "polling"
    /\ s_caller' = "holding"
    /\ UNCHANGED <<provider, upstream, u_pos, buffer, saw_done, event_name,
                   data_lines, s_pc, s_queue, s_resume, s_out>>
    /\ UNCHANGED <<routerVars, loopVars, fixtureVars, collectVars, sharedVars>>
    /\ UNCHANGED <<parseVars, bodyVars>>

CallerNext ==
    \/ CallerPoll
    \/ CallerDrop
    \/ StreamEnded
    \/ StreamReadChunk
    \/ StreamReadError
    \/ StreamReadClosed
    \/ StreamLine
    \/ StreamYield
    \/ StreamFlush
    \/ StreamFinish

(***************************************************************************)
(* The adapters in front of a deterministic upstream: one upstream answer  *)
(* is read through chat, and through chat_stream followed by               *)
(* chat_stream_collect.  The upstream's JSON encoder and serde_json's      *)
(* decoder are inverse on the documents below, so a body is carried as the *)
(* document it spells.                                                     *)
(***************************************************************************)
Providers == {"openai", "anthropic", "gemini"}

\* StatusCode::is_success
IsSuccess(status) == status \in 200..299

\* the statuses the upstream answers with
Statuses == {200, 201, 301, 400, 401, 403, 429, 500}

\* error bodies: text, or None when reading the body fails
ErrorBodies ==
    {None, Some("{error:{message:boom}}"), Some("{error:5}"), Some("plain")}

\* the text parts of an answer
TextParts == UNION {[1..n -> {"", "a", "b"}] : n \in 0..MaxParts}

\* the tool call of an answer
FixtureCalls ==
    {[id |-> "call-1", name |-> "t1", arguments |-> JObj([tz |-> JStr("UTC")])],
     [id |-> "call-2", name |-> "t2", arguments |-> JObj([tz |-> JStr("CET")])]}

\* the usage counters of an answer, each present or absent
FixtureUsages ==
    {[sent |-> FALSE, input |-> None, output |-> None, total |-> None],
     [sent |-> TRUE, input |-> Some(9), output |-> Some(2), total |-> Some(11)],
     [sent |-> TRUE, input |-> Some(9), output |-> Some(2), total |-> Some(12)],
     [sent |-> TRUE, input |-> Some(9), output |-> Some(2), total |-> None],
     [sent |-> TRUE, input |-> Some(9), output |-> None, total |-> None]}

\* what a successful answer says; form is how OpenAI spells message.content
Fixtures ==
    [texts : TextParts, call : {None} \cup {Some(c) : c \in FixtureCalls},
     usage : FixtureUsages, form : {"string", "parts"}]

NoFixture ==
    [texts |-> <<>>, call |-> None,
     usage |-> [sent |-> FALSE, input |-> None, output |-> None,
                total |-> None],
     form |-> "string"]

\* the upstream: unreachable, or a status with an error body, or a 2xx
\* status whose body is the fixture's document (json) or is not JSON at all
Upstreams ==
    {[reached |-> FALSE, status |-> 0, body |-> None, json |-> FALSE,
      fixture |-> NoFixture]}
    \cup {[reached |-> TRUE, status |-> s, body |-> b, json |-> FALSE,
           fixture |-> NoFixture] :
            s \in {x \in Statuses : ~IsSuccess(x)}, b \in ErrorBodies}
    \cup {[reached |-> TRUE, status |-> s, body |-> Some("plain"),
           json |-> FALSE, fixture |-> NoFixture] :
            s \in {x \in Statuses : IsSuccess(x)}}
    \cup {[reached |-> TRUE, status |-> s, body |-> None, json |-> TRUE,
           fixture |-> fx] :
            s \in {x \in Statuses : IsSuccess(x)}, fx \in Fixtures}

\* the request of the contract tests
FixtureRequest == [model |-> <<"m">>, messages |-> <<Message("User", "q")>>]

\* an object with the field k when the value is present
WithField(fields, k, o) == IF o.some THEN MapInsert(fields, k, o.val) ELSE fields

\* a usage object with the counters that are present, under the adapter's names
UsageObject(u, input, output, total) ==
    IF ~u.sent THEN None
    ELSE Some(JObj(
        WithField(WithField(WithField(<<>>,
            input, IF u.input.some THEN Some(JNum(u.input.val)) ELSE None),
            output, IF u.output.some THEN Some(JNum(u.output.val)) ELSE None),
            total, IF u.total.some THEN Some(JNum(u.total.val)) ELSE None)))

\* the JSON text of a tool call's arguments
ArgumentsText(arguments) == "{tz:" \o arguments.v.tz.v \o "}"

\* ---- the error path shared by chat and the chat_stream handshake ----
\* extract_provider_error: error.message of a JSON body, else the body
extract_provider_error(body) ==
    UnwrapOr(AsStr(GetIn(GetIn(JsonParse(<<body>>), "error"), "message")),
             body)

\* parse_http_error (OpenAI)
OpenAiParseHttpError(status, body) ==
    CASE status \in {401, 403} -> Authentication
      [] status = 429 -> RateLimited
      [] OTHER -> Provider(extract_provider_error(body))

\* parse_http_error (Anthropic)
AnthropicParseHttpError(status, body) ==
    CASE status \in {401, 403} -> Authentication
      [] status = 429 -> RateLimited
      [] OTHER -> Provider(extract_provider_error(body))

GeminiParseHttpErrorForbiddenAsProvider(status, body) ==
    CASE status = 401 -> Authentication
      [] status = 429 -> RateLimited
      [] OTHER -> Provider(extract_provider_error(body))

\* parse_http_error (Gemini)
GeminiParseHttpError(status, body) ==
    CASE status \in {401, 403} -> Authentication
      [] status = 429 -> RateLimited
      [] OTHER -> Provider(extract_provider_error(body))

\* response.text().await.unwrap_or_else(|_| "failed to read error body")
ErrorText(up) == UnwrapOr(up.body, "failed to read error body")

\* ---- OpenAI ----
OpenAiWireCall(c) ==
    JObj([id |-> JStr(c.id), type |-> JStr("function"),
          function |-> JObj([name |-> JStr(c.name),
                             arguments |-> JStr(ArgumentsText(c.arguments))])])

OpenAiWireUsage(u) ==
    UsageObject(u, "prompt_tokens", "completion_tokens", "total_tokens")

\* the body of a chat completion
OpenAiChatBody(fx) ==
    LET content ==
            IF fx.form = "string" THEN JStr(Concat(fx.texts))
            ELSE JArr([i \in 1..Len(fx.texts) |->
                          JObj([type |-> JStr("text"),
                                text |-> JStr(fx.texts[i])])])
        message ==
            WithField([role |-> JStr("assistant"), content |-> content],
                      "tool_calls",
                      IF fx.call.some
                      THEN Some(JArr(<<OpenAiWireCall(fx.call.val)>>))
                      ELSE None)
    IN JObj(WithField([id |-> JStr("r1"), model |-> JStr("m"),
                       choices |-> JArr(<<JObj([message |-> JObj(message)])>>)],
                      "usage", OpenAiWireUsage(fx.usage)))

\* the records of a streamed chat completion: the text chunks, the tool
\* call, the usage
OpenAiStreamRecords(fx) ==
    [i \in 1..Len(fx.texts) |-> [event |-> None, data |-> OaText(fx.texts[i])]]
    \o (IF fx.call.some
        THEN <<[event |-> None,
                data |-> JObj([choices |-> JArr(<<JObj([delta |-> JObj([
                    tool_calls |->
                        JArr(<<OpenAiWireCall(fx.call.val)>>)])])>>)])]>>
        ELSE <<>>)
    \o (IF fx.usage.sent
        THEN <<[event |-> None,
                data |-> JObj([choices |-> JArr(<<>>),
                               usage |-> OpenAiWireUsage(fx.usage).val])]>>
        ELSE <<>>)

RECURSIVE PartsText(_)
\* filter_map(part.text as str) joined
PartsText(parts) ==
    IF parts = <<>> THEN ""
    ELSE UnwrapOr(AsStr(Get(Head(parts), "text")), "")
         \o PartsText(Tail(parts))

OpenAiExtractTextContentStringOnly(content) ==
    IF AsStr(content).some THEN AsStr(content).val ELSE ""

\* extract_text_content
OpenAiExtractTextContent(content) ==
    IF AsStr(content).some THEN AsStr(content).val
    ELSE IF AsArray(content).some THEN PartsText(AsArray(content).val)
    ELSE ""

\* the arguments of one tool_calls item: the JSON its text spells, else the
\* field as it is, else Null
OpenAiArguments(function) ==
    LET raw_args == AsStr(Get(function, "arguments")) IN
    IF raw_args.some /\ JsonParse(<<raw_args.val>>).some
    THEN JsonParse(<<raw_args.val>>).val
    ELSE UnwrapOr(Get(function, "arguments"), JNull)

\* extract_tool_calls
OpenAiExtractToolCalls(raw) ==
    LET items == UnwrapOr(AsArray(raw), <<>>) IN
    [i \in 1..Len(items) |->
        LET function == UnwrapOr(Get(items[i], "function"), JNull) IN
        [id |-> UnwrapOr(AsStr(Get(items[i], "id")), ""),
         name |-> UnwrapOr(AsStr(Get(function, "name")), ""),
         arguments |-> OpenAiArguments(function)]]

\* parse_chat_response
OpenAiParseChatResponse(payload) ==
    LET choices == UnwrapOr(AsArray(Get(payload, "choices")), <<>>)
        message ==
            IF choices = <<>> THEN JNull
            ELSE UnwrapOr(Get(choices[1], "message"), JNull)
    IN Ok(ChatResponse(
           UnwrapOr(AsStr(Get(payload, "id")), ""),
           UnwrapOr(AsStr(Get(payload, "model")), ""),
           OpenAiExtractTextContent(Get(message, "content")),
           OpenAiExtractToolCalls(Get(message, "tool_calls")),
           OpenAiExtractUsage(Get(payload, "usage"))))

\* OpenAiAdapter::chat
OpenAiChat(up) ==
    IF ~up.reached THEN Err(Transport("request failed: e"))
    ELSE IF ~IsSuccess(up.status)
    THEN Err(OpenAiParseHttpError(up.status, ErrorText(up)))
    ELSE IF ~up.json THEN Err(Provider("invalid json response: e"))
    ELSE OpenAiParseChatResponse(OpenAiChatBody(up.fixture))

\* OpenAiAdapter::chat_stream up to the returned stream
OpenAiChatStream(up) ==
    IF ~up.reached THEN Err(Transport("stream request failed: e"))
    ELSE IF ~IsSuccess(up.status)
    THEN Err(OpenAiParseHttpError(up.status, ErrorText(up)))
    ELSE Ok(IF up.json THEN OpenAiStreamRecords(up.fixture) ELSE <<>>)

\* ---- Anthropic ----
AnthropicWireUsage(u) == UsageObject(u, "input_tokens", "output_tokens", "")

AnthropicToolUse(c) ==
    JObj([type |-> JStr("tool_use"), id |-> JStr(c.id), name |-> JStr(c.name),
          input |-> c.arguments])

\* the body of a message
AnthropicChatBody(fx) ==
    JObj(WithField(
        [id |-> JStr("r1"), model |-> JStr("m"),
         content |-> JArr(
            [i \in 1..Len(fx.texts) |->
                JObj([type |-> JStr("text"), text |-> JStr(fx.texts[i])])]
            \o (IF fx.call.some THEN <<AnthropicToolUse(fx.call.val)>>
                ELSE <<>>))],
        "usage", AnthropicWireUsage(fx.usage)))

\* the records of a streamed message, each under its event name
AnthropicStreamRecords(fx) ==
    [i \in 1..Len(fx.texts) |->
        [event |-> Some("content_block_delta"), data |-> AnText(fx.texts[i])]]
    \o (IF fx.call.some
        THEN <<[event |-> Some("content_block_start"),
                data |-> JObj([type |-> JStr("content_block_start"),
                               content_block |->
                                   AnthropicToolUse(fx.call.val)])]>>
        ELSE <<>>)
    \o (IF fx.usage.sent
        THEN <<[event |-> Some("message_delta"),
                data |-> JObj([type |-> JStr("message_delta"),
                               usage |-> AnthropicWireUsage(fx.usage).val])]>>
        ELSE <<>>)
    \o <<[event |-> Some("message_stop"), data |-> AnStop]>>

RECURSIVE AnthropicExtractTextBlocks(_)
\* extract_text_blocks
AnthropicExtractTextBlocks(content) ==
    IF content = <<>> THEN ""
    ELSE (IF AsStr(Get(Head(content), "type")) = Some("text")
          THEN UnwrapOr(AsStr(Get(Head(content), "text")), "")
          ELSE "")
         \o AnthropicExtractTextBlocks(Tail(content))

RECURSIVE AnthropicExtractToolCallsFromBlocks(_)
\* extract_tool_calls_from_blocks
AnthropicExtractToolCallsFromBlocks(content) ==
    IF content = <<>> THEN <<>>
    ELSE (IF AsStr(Get(Head(content), "type")) = Some("tool_use")
          THEN <<[id |-> UnwrapOr(AsStr(Get(Head(content), "id")), ""),
                  name |-> UnwrapOr(AsStr(Get(Head(content), "name")), ""),
                  arguments |-> UnwrapOr(Get(Head(content), "input"), JNull)]>>
          ELSE <<>>)
         \o AnthropicExtractToolCallsFromBlocks(Tail(content))

\* parse_chat_response
AnthropicParseChatResponse(payload) ==
    LET content == UnwrapOr(AsArray(Get(payload, "content")), <<>>) IN
    Ok(ChatResponse(
        UnwrapOr(AsStr(Get(payload, "id")), ""),
        UnwrapOr(AsStr(Get(payload, "model")), ""),
        AnthropicExtractTextBlocks(content),
        AnthropicExtractToolCallsFromBlocks(content),
        AnthropicExtractUsage(Get(payload, "usage"))))

\* AnthropicAdapter::chat
AnthropicChat(up) ==
    IF ~up.reached THEN Err(Transport("request failed: e"))
    ELSE IF ~IsSuccess(up.status)
    THEN Err(AnthropicParseHttpError(up.status, ErrorText(up)))
    ELSE IF ~up.json THEN Err(Provider("invalid json response: e"))
    ELSE AnthropicParseChatResponse(AnthropicChatBody(up.fixture))

\* AnthropicAdapter::chat_stream up to the returned stream
AnthropicChatStream(up) ==
    IF ~up.reached THEN Err(Transport("stream request failed: e"))
    ELSE IF ~IsSuccess(up.status)
    THEN Err(AnthropicParseHttpError(up.status, ErrorText(up)))
    ELSE Ok(IF up.json THEN AnthropicStreamRecords(up.fixture) ELSE <<>>)

\* ---- Gemini ----
GeminiWireUsage(u) ==
    UsageObject(u, "promptTokenCount", "candidatesTokenCount",
                "totalTokenCount")

GeminiFunctionCall(c) ==
    JObj([functionCall |-> JObj([id |-> JStr(c.id), name |-> JStr(c.name),
                                 args |-> c.arguments])])

\* the body of a generateContent answer
GeminiChatBody(fx) ==
    JObj(WithField(
        [responseId |-> JStr("r1"),
         candidates |-> JArr(<<JObj([
            finishReason |-> JStr("STOP"),
            content |-> JObj([parts |-> JArr(
                [i \in 1..Len(fx.texts) |-> JObj([text |-> JStr(fx.texts[i])])]
                \o (IF fx.call.some THEN <<GeminiFunctionCall(fx.call.val)>>
                    ELSE <<>>))])])>>)],
        "usageMetadata", GeminiWireUsage(fx.usage)))

\* the records of a streamGenerateContent answer
GeminiStreamRecords(fx) ==
    [i \in 1..Len(fx.texts) |-> [event |-> None, data |-> GeText(fx.texts[i])]]
    \o (IF fx.call.some
        THEN <<[event |-> None,
                data |-> JObj([candidates |-> JArr(<<JObj([content |->
                    JObj([parts |-> JArr(<<
                        GeminiFunctionCall(fx.call.val)>>)])])>>)])]>>
        ELSE <<>>)
    \o <<[event |-> None,
          data |-> JObj(WithField(
              [candidates |-> JArr(<<JObj([finishReason |-> JStr("STOP")])>>)],
              "usageMetadata", GeminiWireUsage(fx.usage)))]>>

\* parse_chat_response
GeminiParseChatResponse(model, payload) ==
    Ok(ChatResponse(
        UnwrapOr(AsStr(Get(payload, "responseId")), ""),
        model,
        GeminiExtractText(payload),
        GeminiExtractToolCalls(payload),
        GeminiExtractUsage(Get(payload, "usageMetadata"))))

\* GeminiAdapter::chat
GeminiChat(req, up) ==
    IF ~up.reached THEN Err(Transport("request failed: e"))
    ELSE IF ~IsSuccess(up.status)
    THEN Err(GeminiParseHttpError(up.status, ErrorText(up)))
    ELSE IF ~up.json THEN Err(Provider("invalid json response: e"))
    ELSE GeminiParseChatResponse(Concat(req.model), GeminiChatBody(up.fixture))

\* GeminiAdapter::chat_stream up to the returned stream
GeminiChatStream(up) ==
    IF ~up.reached THEN Err(Transport("stream request failed: e"))
    ELSE IF ~IsSuccess(up.status)
    THEN Err(GeminiParseHttpError(up.status, ErrorText(up)))
    ELSE Ok(IF up.json THEN GeminiStreamRecords(up.fixture) ELSE <<>>)

\* ---- the three adapters behind the ChatAdapter trait ----
Chat(p, req, up) ==
    CASE p = "openai" -> OpenAiChat(up)
      [] p = "anthropic" -> AnthropicChat(up)
      [] p = "gemini" -> GeminiChat(req, up)

ChatStream(p, up) ==
    CASE p = "openai" -> OpenAiChatStream(up)
      [] p = "anthropic" -> AnthropicChatStream(up)
      [] p = "gemini" -> GeminiChatStream(up)

\* the events the stream yields for one record of the body
RecordEvents(p, record) ==
    CASE p = "openai" -> OpenAiStreamEvents(record.data)
      [] p = "anthropic" -> AnthropicStreamEvents(record.data, record.event)
      [] p = "gemini" -> GeminiStreamEvents(record.data)

FixtureInit ==
    /\ f_provider \in Providers
    /\ f_upstream \in Upstreams
    /\ f_pc = "chat"
    /\ f_chat = None
    /\ f_stream = None
    /\ f_next = 0
    /\ f_events = <<>>
    /\ f_collected = None
    /\ RouterIdle /\ LoopIdle /\ StreamIdle /\ CollectIdle
    /\ SharedIdle
    /\ ParseIdle /\ BodyIdle

\* the caller awaits adapter.chat(request)
FixtureChat ==
    /\ f_pc = "chat"
    /\ f_chat' = Some(Chat(f_provider, FixtureRequest, f_upstream))
    /\ f_pc' = "handshake"
    /\ UNCHANGED <<f_provider, f_upstream, f_stream, f_next, f_events,
                   f_collected>>
    /\ UNCHANGED <<routerVars, loopVars, streamVars, collectVars, sharedVars>>
    /\ UNCHANGED <<parseVars, bodyVars>>

\* the caller awaits adapter.chat_stream(request): an error, or a stream
FixtureHandshake ==
    /\ f_pc = "handshake"
    /\ f_stream' = Some(ChatStream(f_provider, f_upstream))
    /\ f_pc' = IF ChatStream(f_provider, f_upstream).ok THEN "records"
               ELSE "done"
    /\ UNCHANGED <<f_provider, f_upstream, f_chat, f_next, f_events,
                   f_collected>>
    /\ UNCHANGED <<routerVars, loopVars, streamVars, collectVars, sharedVars>>
    /\ UNCHANGED <<parseVars, bodyVars>>

\* the stream parses the next record of the body and yields its events
FixtureRecord ==
    /\ f_pc = "records"
    /\ f_next < Len(f_stream.val.val)
    /\ f_next' = f_next + 1
    /\ f_events' =
           f_events \o RecordEvents(f_provider, f_stream.val.val[f_next + 1])
    /\ UNCHANGED <<f_provider, f_upstream, f_pc, f_chat, f_stream, f_collected>>
    /\ UNCHANGED <<routerVars, loopVars, streamVars, collectVars, sharedVars>>
    /\ UNCHANGED <<parseVars, bodyVars>>

\* the body ends: `if !saw_done { yield Done }`
FixtureEnd ==
    /\ f_pc = "records"
    /\ f_next = Len(f_stream.val.val)
    /\ f_events' =
           IF \E i \in 1..Len(f_events) : f_events[i] = Done THEN f_events
           ELSE Append(f_events, Done)
    /\ f_pc' = "collect"
    /\ UNCHANGED <<f_provider, f_upstream, f_chat, f_stream, f_next,
                   f_collected>>
    /\ UNCHANGED <<routerVars, loopVars, streamVars, collectVars, sharedVars>>
    /\ UNCHANGED <<parseVars, bodyVars>>

\* Client::chat_stream_collect drains the stream
FixtureCollect ==
    /\ f_pc = "collect"
    /\ \E r \in chat_stream_collect(
                    FixtureRequest,
                    Ok([i \in 1..Len(f_events) |-> Ok(f_events[i])])) :
           f_collected' = Some(r)
    /\ f_pc' = "done"
    /\ UNCHANGED <<f_provider, f_upstream, f_chat, f_stream, f_next, f_events>>
    /\ UNCHANGED <<routerVars, loopVars, streamVars, collectVars, sharedVars>>
    /\ UNCHANGED <<parseVars, bodyVars>>

FixtureNext ==
    \/ FixtureChat
    \/ FixtureHandshake
    \/ FixtureRecord
    \/ FixtureEnd
    \/ FixtureCollect

(***************************************************************************)
(* Two callers on one shared instance: a FailoverRouter (chat,             *)
(* chat_stream) and a Client (chat_with_tools).  The instance holds the    *)
(* adapters and the policy, which no call writes; everything a call        *)
(* writes is a local of its own future.                                    *)
(***************************************************************************)
Callers == {1, 2}

RouterOps == {"chat", "chat_stream"}

\* What a child adapter can answer to one call.
SharedOutcomes(child) ==
    {Ok([from |-> child, id |-> "v1"]), Err(RateLimited), Err(Provider("m1")),
     Err(Authentication)}

\* What the Client's adapter can answer to one request of a tool loop.
SharedAnswers ==
    {Ok(ChatResponse("1", <<"m">>, "hi", <<>>, None)),
     Ok(ChatResponse("1", <<"m">>, "",
                     <<[id |-> "c1", name |-> "t1", arguments |-> JStr("a1")]>>,
                     None)),
     Err(RateLimited)}

\* The locals of a call at its start (`let mut last_error = None` of the
\* router; `let mut invocations = Vec::new()` and the request of the loop,
\* which passed the checks at the head of run_tool_loop), with empty logs.
FreshCall(op) ==
    [op |-> op,
     pc |-> IF op \in RouterOps THEN "next" ELSE "top",
     iter |-> 0, last_error |-> None, tried |-> <<>>, outcomes |-> <<>>,
     iteration |-> 0, messages |-> <<Message("User", "q")>>,
     invocations |-> <<>>, pending |-> <<>>, responses |-> <<>>,
     execs |-> <<>>, result |-> None]

\* Two callers have each started an operation on the shared instance.
SharedInit ==
    /\ adapters \in {[i \in 1..n |-> i] : n \in 1..MaxAdapters}
    /\ policy \in [max_adapters_to_try : {1, MaxAdapters + 1}]
    /\ r_mode = "none"
    /\ r_pc = "unused"
    /\ r_iter = 0
    /\ last_error = None
    /\ r_result = None
    /\ r_calls = <<>>
    /\ r_outcomes = <<>>
    /\ r_yielded = [i \in 1..MaxAdapters |-> <<>>]
    /\ r_received = <<>>
    /\ r_info = None
    /\ r_cancelled = FALSE
    /\ sh_calls \in [Callers -> {FreshCall(op) :
                                   op \in RouterOps \cup {"chat_with_tools"}}]
    /\ LoopIdle /\ StreamIdle /\ FixtureIdle /\ CollectIdle
    /\ ParseIdle /\ BodyIdle

\* the for loop of caller c takes the next adapter and calls it
SharedInvoke(c) ==
    /\ sh_calls[c].op \in RouterOps
    /\ sh_calls[c].pc = "next"
    /\ sh_calls[c].iter < Len(adapters_to_try)
    /\ sh_calls' = [sh_calls EXCEPT
                      ![c].iter = @ + 1,
                      ![c].tried = Append(@, adapters_to_try[sh_calls[c].iter + 1]),
                      ![c].pc = "await"]
    /\ UNCHANGED <<routerVars, loopVars, streamVars, fixtureVars, collectVars>>
    /\ UNCHANGED <<parseVars, bodyVars>>

WithLastShared(calls, c, error) ==
    [x \in DOMAIN calls |-> [calls[x] EXCEPT !.last_error = Some(error)]]

\* last_error = Some(error): the local of the call of caller c
WithLast(calls, c, error) ==
    [calls EXCEPT ![c].last_error = Some(error)]

\* the child in flight for caller c answers; the three match arms
SharedReturn(c) ==
    /\ sh_calls[c].op \in RouterOps
    /\ sh_calls[c].pc = "await"
    /\ \E outcome \in
            SharedOutcomes(sh_calls[c].tried[Len(sh_calls[c].tried)]) :
          LET logged == [sh_calls EXCEPT ![c].outcomes = Append(@, outcome)]
          IN sh_calls' =
               IF outcome.ok
               THEN [logged EXCEPT ![c].pc = "done",
                                   ![c].result = Some(outcome)]
               ELSE IF should_failover(outcome.err)
               THEN [WithLast(logged, c, outcome.err) EXCEPT ![c].pc = "next"]
               ELSE [logged EXCEPT ![c].pc = "done",
                                   ![c].result = Some(outcome)]
    /\ UNCHANGED <<routerVars, loopVars, streamVars, fixtureVars, collectVars>>
    /\ UNCHANGED <<parseVars, bodyVars>>

\* the iterator of caller c is exhausted
SharedExhausted(c) ==
    /\ sh_calls[c].op \in RouterOps
    /\ sh_calls[c].pc = "next"
    /\ sh_calls[c].iter >= Len(adapters_to_try)
    /\ sh_calls' = [sh_calls EXCEPT
                      ![c].pc = "done",
                      ![c].result =
                          Some(Err(IF sh_calls[c].last_error.some
                                   THEN sh_calls[c].last_error.val
                                   ELSE Internal(ExhaustedMessage)))]
    /\ UNCHANGED <<routerVars, loopVars, streamVars, fixtureVars, collectVars>>
    /\ UNCHANGED <<parseVars, bodyVars>>

\* the options of the tool loops
SharedOptions == [max_iterations |-> MaxIterations]

\* the tool loop of caller c starts an iteration and sends its request
SharedLoopSend(c) ==
    /\ sh_calls[c].op = "chat_with_tools"
    /\ sh_calls[c].pc = "top"
    /\ sh_calls[c].iteration < SharedOptions.max_iterations
    /\ sh_calls' = [sh_calls EXCEPT ![c].pc = "await"]
    /\ UNCHANGED <<routerVars, loopVars, streamVars, fixtureVars, collectVars>>
    /\ UNCHANGED <<parseVars, bodyVars>>

\* the adapter answers the tool loop of caller c
SharedLoopReceive(c) ==
    /\ sh_calls[c].op = "chat_with_tools"
    /\ sh_calls[c].pc = "await"
    /\ \E r \in SharedAnswers :
          LET logged == [sh_calls EXCEPT ![c].responses = Append(@, r)] IN
          sh_calls' =
            IF ~r.ok
            THEN [logged EXCEPT ![c].pc = "done",
                                ![c].result = Some(Err(r.err))]
            ELSE IF r.val.tool_calls = <<>>
            THEN [logged EXCEPT
                    ![c].pc = "done",
                    ![c].result =
                        Some(Ok(ToolLoopResult(r.val, sh_calls[c].invocations,
                                               sh_calls[c].iteration + 1)))]
            ELSE [logged EXCEPT
                    ![c].pc = "exec",
                    ![c].messages =
                        Append(@, Message("Assistant", r.val.output_text)),
                    ![c].pending = r.val.tool_calls]
    /\ UNCHANGED <<routerVars, loopVars, streamVars, fixtureVars, collectVars>>
    /\ UNCHANGED <<parseVars, bodyVars>>

\* the tool loop of caller c runs the executor for its next tool call
SharedLoopExec(c) ==
    /\ sh_calls[c].op = "chat_with_tools"
    /\ sh_calls[c].pc = "exec"
    /\ sh_calls[c].pending # <<>>
    /\ LET call == Head(sh_calls[c].pending) IN
       \E out \in ExecOutcomes(call.name, call.arguments) :
          LET logged == [sh_calls EXCEPT ![c].execs = Append(@, out)] IN
          sh_calls' =
            IF ~out.ok
            THEN [logged EXCEPT ![c].pc = "done",
                                ![c].result = Some(ExecError(call, out.err))]
            ELSE [logged EXCEPT
                    ![c].invocations = Push(@, ToolInvocation(call, out.val)),
                    ![c].messages =
                        Append(@, Message("Tool",
                                          ToolMessageContent(call, out.val))),
                    ![c].pending = Tail(@),
                    ![c].iteration =
                        IF Tail(sh_calls[c].pending) = <<>> THEN @ + 1 ELSE @,
                    ![c].pc =
                        IF Tail(sh_calls[c].pending) = <<>> THEN "top"
                        ELSE "exec"]
    /\ UNCHANGED <<routerVars, loopVars, streamVars, fixtureVars, collectVars>>
    /\ UNCHANGED <<parseVars, bodyVars>>

\* the range of the for loop of caller c is used up
SharedLoopExceeded(c) ==
    /\ sh_calls[c].op = "chat_with_tools"
    /\ sh_calls[c].pc = "top"
    /\ sh_calls[c].iteration >= SharedOptions.max_iterations
    /\ sh_calls' = [sh_calls EXCEPT
                      ![c].pc = "done",
                      ![c].result =
                          Some(Err(Provider(ExceededMessage(
                                       SharedOptions.max_iterations))))]
    /\ UNCHANGED <<routerVars, loopVars, streamVars, fixtureVars, collectVars>>
    /\ UNCHANGED <<parseVars, bodyVars>>

SharedNext ==
    \/ SharedInvoke(1)
    \/ SharedInvoke(2)
    \/ SharedReturn(1)
    \/ SharedReturn(2)
    \/ SharedExhausted(1)
    \/ SharedExhausted(2)
    \/ SharedLoopSend(1)
    \/ SharedLoopSend(2)
    \/ SharedLoopReceive(1)
    \/ SharedLoopReceive(2)
    \/ SharedLoopExec(1)
    \/ SharedLoopExec(2)
    \/ SharedLoopExceeded(1)
    \/ SharedLoopExceeded(2)

(***************************************************************************)
(* The Gemini parse_stream_payload applied to one payload                  *)
(* (crates/forgeai-adapter-gemini/src/lib.rs).  A payload is drawn by what *)
(* it holds; GeminiDoc is the document serde_json parses it to.            *)
(***************************************************************************)
\* the parts of the first candidate: texts and function calls
PayloadParts ==
    {[kind |-> "text", text |-> t] : t \in {"", "a"}}
        \cup {[kind |-> "call", call |-> c] : c \in FixtureCalls}

PayloadPartLists == UNION {[1..n -> PayloadParts] : n \in 0..MaxParts}

\* finishReason of the first candidate: absent, a string, or null
PayloadFinishes == {"absent", "STOP", "MAX_TOKENS", "null"}

\* usageMetadata: absent, null, an object without counters, with counters
PayloadUsages == {"absent", "null", "empty", "full"}

\* The payloads: text that is not JSON; a document without candidates; a
\* document with one candidate, or with a second candidate that carries a
\* text part and a finishReason of its own.
PayloadShapes ==
    {[json |-> FALSE]}
        \cup [json : {TRUE}, candidates : {0}, parts : {<<>>},
              finish : {"absent"}, usage : PayloadUsages]
        \cup [json : {TRUE}, candidates : {1, 2}, parts : PayloadPartLists,
              finish : PayloadFinishes, usage : PayloadUsages]

PartDoc(part) ==
    IF part.kind = "text" THEN JObj([text |-> JStr(part.text)])
    ELSE GeminiFunctionCall(part.call)

CandidateDoc(parts, finish) ==
    JObj(WithField(
        [content |-> JObj([parts |->
            JArr([i \in 1..Len(parts) |-> PartDoc(parts[i])])])],
        "finishReason",
        CASE finish = "absent" -> None
          [] finish = "null" -> Some(JNull)
          [] OTHER -> Some(JStr(finish))))

\* the document of a payload
GeminiDoc(shape) ==
    LET first == CandidateDoc(shape.parts, shape.finish)
        second == CandidateDoc(<<[kind |-> "text", text |-> "c"]>>, "STOP")
        body ==
            CASE shape.candidates = 0 -> [model |-> JStr("g")]
              [] shape.candidates = 1 -> [candidates |-> JArr(<<first>>)]
              [] shape.candidates = 2 -> [candidates |-> JArr(<<first, second>>)]
    IN JObj(WithField(body, "usageMetadata",
           CASE shape.usage = "absent" -> None
             [] shape.usage = "null" -> Some(JNull)
             [] shape.usage = "empty" -> Some(JObj(<<>>))
             [] shape.usage = "full" ->
                   Some(JObj([promptTokenCount |-> JNum(9),
                              candidatesTokenCount |-> JNum(2),
                              totalTokenCount |-> JNum(11)]))))

\* A payload is in hand; parse_stream_payload has not run.
PayloadInit ==
    /\ g_shape \in PayloadShapes
    /\ g_events = None
    /\ RouterIdle /\ LoopIdle /\ StreamIdle /\ FixtureIdle /\ CollectIdle
    /\ SharedIdle /\ BodyIdle

\* parse_stream_payload: serde_json::from_str fails, map_err(...)?
GeminiParseError ==
    /\ g_events = None
    /\ ~g_shape.json
    /\ g_events' = Some(Err(InvalidPayload))
    /\ UNCHANGED g_shape
    /\ UNCHANGED <<routerVars, loopVars, streamVars, fixtureVars, collectVars,
                   sharedVars, bodyVars>>

\* parse_stream_payload on a JSON document: Ok(events)
GeminiParse ==
    /\ g_events = None
    /\ g_shape.json
    /\ g_events' = Some(Ok(GeminiStreamEvents(GeminiDoc(g_shape))))
    /\ UNCHANGED g_shape
    /\ UNCHANGED <<routerVars, loopVars, streamVars, fixtureVars, collectVars,
                   sharedVars, bodyVars>>

PayloadNext ==
    \/ GeminiParseError
    \/ GeminiParse

(***************************************************************************)
(* The request body builders: build_messages_body                          *)
(* (crates/forgeai-adapter-anthropic/src/lib.rs) and build_generate_body   *)
(* (crates/forgeai-adapter-gemini/src/lib.rs).                             *)
(***************************************************************************)
Roles == {"System", "User", "Assistant", "Tool"}

\* Value::Bool
JBool(b) == [t |-> "bool", v |-> b]

\* the content of the i-th message: its own text, or for a System message
\* also the empty text
BodyContents(role, i) ==
    IF role = "System" THEN {"", "c" \o ToString(i)} ELSE {"c" \o ToString(i)}

\* the message lists handed to a builder
BodyMessageLists ==
    UNION {{ms \in [1..n -> [role : Roles,
                             content : {""} \cup
                                 {"c" \o ToString(i) : i \in 1..n}]] :
               \A i \in 1..n : ms[i].content \in BodyContents(ms[i].role, i)} :
           n \in 0..MaxMessages}

\* a tool definition
BodyTool == [name |-> "t1", description |-> "d", input_schema |-> JObj(<<>>)]

\* the requests: temperature and max_tokens each present or absent (a present
\* value may be zero), with or without a tool
BodyRequests ==
    [model : {"m"}, messages : BodyMessageLists,
     temperature : {None, Some(0), Some(1)},
     max_tokens : {None, Some(16)},
     tools : {<<>>, <<BodyTool>>}]

RECURSIVE JoinStr(_, _)
\* [String]::join
JoinStr(chunks, sep) ==
    IF chunks = <<>> THEN ""
    ELSE IF Len(chunks) = 1 THEN chunks[1]
    ELSE chunks[1] \o sep \o JoinStr(Tail(chunks), sep)

RECURSIVE SystemChunksReversed(_)
SystemChunksReversed(messages) ==
    IF messages = <<>> THEN <<>>
    ELSE SystemChunksReversed(Tail(messages))
         \o (IF Head(messages).role = "System" THEN <<Head(messages).content>>
             ELSE <<>>)

RECURSIVE SystemChunks(_)
\* the for loop of either builder, its System branch:
\* system_chunks.push(message.content); continue;
SystemChunks(messages) ==
    IF messages = <<>> THEN <<>>
    ELSE (IF Head(messages).role = "System" THEN <<Head(messages).content>>
          ELSE <<>>)
         \o SystemChunks(Tail(messages))

RECURSIVE AnthropicMessages(_)
\* the for loop of build_messages_body, its other branch: messages.push(..)
AnthropicMessages(messages) ==
    IF messages = <<>> THEN <<>>
    ELSE (IF Head(messages).role = "System" THEN <<>>
          ELSE <<JObj([role |-> JStr(IF Head(messages).role = "Assistant"
                                     THEN "assistant" ELSE "user"),
                       content |-> JArr(<<JObj([
                           type |-> JStr("text"),
                           text |-> JStr(Head(messages).content)])>>)])>>)
         \o AnthropicMessages(Tail(messages))

\* build_messages_body(request, stream)
build_messages_body(req, stream) ==
    LET chunks == SystemChunks(req.messages)
        model == [model |-> JStr(req.model),
                  max_tokens |-> JNum(UnwrapOr(req.max_tokens, 1024))]
        temperature ==
            WithField(model, "temperature",
                      IF req.temperature.some
                      THEN Some(JNum(req.temperature.val)) ELSE None)
        messages ==
            MapInsert(temperature, "messages",
                      JArr(AnthropicMessages(req.messages)))
        system ==
            WithField(messages, "system",
                      IF chunks # <<>>
                      THEN Some(JStr(JoinStr(chunks, "\n\n"))) ELSE None)
        tools ==
            WithField(system, "tools",
                      IF req.tools # <<>>
                      THEN Some(JArr([i \in 1..Len(req.tools) |->
                          JObj([name |-> JStr(req.tools[i].name),
                                description |-> JStr(req.tools[i].description),
                                input_schema |-> req.tools[i].input_schema])]))
                      ELSE None)
    IN JObj(WithField(tools, "stream",
                      IF stream THEN Some(JBool(TRUE)) ELSE None))

RECURSIVE GeminiContents(_)
\* the for loop of build_generate_body, its other branch: contents.push(..)
GeminiContents(messages) ==
    IF messages = <<>> THEN <<>>
    ELSE (IF Head(messages).role = "System" THEN <<>>
          ELSE <<JObj([role |-> JStr(IF Head(messages).role = "Assistant"
                                     THEN "model" ELSE "user"),
                       parts |-> JArr(<<JObj([
                           text |-> JStr(Head(messages).content)])>>)])>>)
         \o GeminiContents(Tail(messages))

\* json!(request.max_tokens): an Option serializes to its value or to null
OptionToJson(o) == IF o.some THEN JNum(o.val) ELSE JNull

\* build_generate_body(request)
build_generate_body(req) ==
    LET chunks == SystemChunks(req.messages)
        config ==
            IF req.temperature.some
            THEN Some(JObj([temperature |-> JNum(req.temperature.val),
                            maxOutputTokens |-> OptionToJson(req.max_tokens)]))
            ELSE IF req.max_tokens.some
            THEN Some(JObj([maxOutputTokens |-> JNum(req.max_tokens.val)]))
            ELSE None
        contents ==
            MapInsert(WithField(<<>>, "generationConfig", config), "contents",
                      JArr(GeminiContents(req.messages)))
        system ==
            WithField(contents, "systemInstruction",
                      IF chunks # <<>>
                      THEN Some(JObj([parts |-> JArr(<<JObj([
                               text |-> JStr(JoinStr(chunks, "\n\n"))])>>)]))
                      ELSE None)
    IN JObj(WithField(system, "tools",
                IF req.tools # <<>>
                THEN Some(JArr([i \in 1..Len(req.tools) |->
                    JObj([functionDeclarations |-> JArr(<<JObj([
                        name |-> JStr(req.tools[i].name),
                        description |-> JStr(req.tools[i].description),
                        parameters |-> req.tools[i].input_schema])>>)])]))
                ELSE None))

\* An adapter is about to build the body of a request; the Anthropic
\* builder is called with stream = false by chat and true by chat_stream.
BodyInit ==
    /\ b_provider \in {"anthropic", "gemini"}
    /\ b_request \in BodyRequests
    /\ b_stream \in BOOLEAN
    /\ b_provider = "gemini" => b_stream = FALSE
    /\ b_body = None
    /\ RouterIdle /\ LoopIdle /\ StreamIdle /\ FixtureIdle /\ CollectIdle
    /\ SharedIdle /\ ParseIdle

\* AnthropicAdapter::chat / chat_stream: .json(&build_messages_body(..))
AnthropicBuild ==
    /\ b_provider = "anthropic"
    /\ b_body = None
    /\ b_body' = Some(build_messages_body(b_request, b_stream))
    /\ UNCHANGED <<b_provider, b_request, b_stream>>
    /\ UNCHANGED <<routerVars, loopVars, streamVars, fixtureVars, collectVars,
                   sharedVars, parseVars>>

\* GeminiAdapter::chat / chat_stream: .json(&build_generate_body(request))
GeminiBuild ==
    /\ b_provider = "gemini"
    /\ b_body = None
    /\ b_body' = Some(build_generate_body(b_request))
    /\ UNCHANGED <<b_provider, b_request, b_stream>>
    /\ UNCHANGED <<routerVars, loopVars, streamVars, fixtureVars, collectVars,
                   sharedVars, parseVars>>

BodyNext ==
    \/ AnthropicBuild
    \/ GeminiBuild

(***************************************************************************)
(* Specifications.                                                         *)
(***************************************************************************)
SpecRouter == RouterInit /\ [][RouterNext]_vars

SpecBuild == BuildInit /\ [][BuildNext]_vars

SpecCancel == RouterInit /\ [][CancelNext]_vars

SpecLoop == LoopInit /\ [][LoopNext]_vars

\* Every await of the loop returns (the adapter answers, the executor
\* returns) and the loop takes its own steps.
SpecLoopFair ==
    ToolLoopInit /\ [][ToolLoopNext]_vars /\ WF_vars(ToolLoopNext)

SpecScript == ScriptInit /\ [][LoopNext]_vars

SpecStream == StreamInit /\ [][StreamNext]_vars

SpecChunks == ChunkInit /\ [][StreamNext]_vars

SpecFailing == FailInit /\ [][StreamNext]_vars

SpecCaller == CallerInit /\ [][CallerNext]_vars

SpecFixture == FixtureInit /\ [][FixtureNext]_vars

SpecCollect == CollectInit /\ [][CollectNext]_vars

SpecShared == SharedInit /\ [][SharedNext]_vars

SpecPayload == PayloadInit /\ [][PayloadNext]_vars

SpecBody == BodyInit /\ [][BodyNext]_vars

(***************************************************************************)
(* Claims about the failover router.                                       *)
(***************************************************************************)
IsRetryable(e) == e.kind \in {"RateLimited", "Transport", "Provider"}

IsTerminal(e) == e.kind \in {"Validation", "Authentication", "Internal"}

\* the children 1..k-1 all answered with a retryable error
RetryableBefore(k) ==
    \A j \in 1..(k - 1) : ~r_outcomes[j].ok /\ IsRetryable(r_outcomes[j].err)

\* C1: when the children before k fail with retryable errors and child k
\* succeeds, the call (chat or chat_stream) has returned child k's success and
\* has invoked exactly the first k adapters, once each, in list order.
C1_ReturnsFirstSuccess ==
    \A k \in 1..Len(r_outcomes) :
        (r_outcomes[k].ok /\ RetryableBefore(k)) =>
            /\ r_pc = "done"
            /\ r_result = Some(r_outcomes[k])
            /\ r_result.val.val.from = adapters[k]
            /\ r_calls = SubSeq(adapters, 1, k)
            /\ Len(r_outcomes) = k

C1_Witness ==
    /\ r_pc = "done"
    /\ Len(r_outcomes) = 3
    /\ r_outcomes[3].ok
    /\ RetryableBefore(3)
    /\ r_outcomes[1] # r_outcomes[2]

\* C2: when the children before k fail with retryable errors and child k fails
\* with a terminal error E, the call has returned exactly E and has invoked no
\* adapter after k.
C2_TerminalErrorStops ==
    \A k \in 1..Len(r_outcomes) :
        (~r_outcomes[k].ok /\ IsTerminal(r_outcomes[k].err)
            /\ RetryableBefore(k)) =>
            /\ r_pc = "done"
            /\ r_result = Some(Err(r_outcomes[k].err))
            /\ r_calls = SubSeq(adapters, 1, k)
            /\ Len(r_outcomes) = k

C2_Witness ==
    /\ r_pc = "done"
    /\ Len(r_outcomes) = 2
    /\ Len(adapters_to_try) = 3
    /\ ~r_outcomes[1].ok /\ IsRetryable(r_outcomes[1].err)
    /\ ~r_outcomes[2].ok /\ IsTerminal(r_outcomes[2].err)

\* every adapter of the capped list was tried and failed with a retryable error
AllTriedRetryable ==
    /\ r_pc = "done"
    /\ Len(r_outcomes) = Min(Len(adapters), policy.max_adapters_to_try)
    /\ Len(r_outcomes) >= 1
    /\ RetryableBefore(Len(r_outcomes) + 1)

\* C3: when every tried adapter (the first min(N, max_adapters_to_try), at
\* least one) fails with a retryable error, the call returns the error of the
\* last adapter tried, after invoking each tried adapter once in list order.
C3_ReturnsLastRetryableError ==
    AllTriedRetryable =>
        /\ r_result = Some(r_outcomes[Len(r_outcomes)])
        /\ r_calls =
             SubSeq(adapters, 1, Min(Len(adapters), policy.max_adapters_to_try))

C3_Witness ==
    /\ AllTriedRetryable
    /\ Len(r_outcomes) = 2
    /\ Len(adapters) = 3
    /\ r_outcomes[1] # r_outcomes[2]

\* C4: once chat_stream has obtained a stream from child i, no other child is
\* started for the call: every item the stream yields afterwards, errors
\* included, reaches the caller unchanged, and the invoked adapters stay
\* exactly those up to i.
C4_FailoverOnlyOnHandshake ==
    \A k \in 1..Len(r_outcomes) :
        (r_mode = "chat_stream" /\ r_outcomes[k].ok) =>
            /\ Len(r_calls) = k
            /\ r_iter = k
            /\ r_result = Some(r_outcomes[k])
            /\ r_received = r_yielded[r_calls[k]]
            /\ \A c \in 1..MaxAdapters : c # r_calls[k] => r_yielded[c] = <<>>

C4_Witness ==
    /\ r_mode = "chat_stream"
    /\ r_result.some
    /\ r_result.val.ok
    /\ Len(r_calls) < Len(adapters_to_try)
    /\ Len(r_received) = 2
    /\ ~r_received[1].ok
    /\ IsRetryable(r_received[1].err)
    /\ ~r_received[2].ok

\* C18: FailoverRouter::new and with_policy fail with Validation if and only
\* if the adapter list passed in is empty; so every constructed router holds
\* at least one adapter, and info, which reads the first adapter, is defined
\* and describes that adapter.
C18_ConstructionValidates ==
    /\ r_pc = "failed" =>
          /\ adapters = <<>>
          /\ r_result = Some(Err(Validation(
                  "failover router requires at least one adapter")))
          /\ r_calls = <<>> /\ r_info = None
    /\ r_pc \notin {"new", "failed"} => adapters # <<>>
    /\ r_info.some =>
          /\ r_info.val.name = "failover-router"
          /\ r_info.val.base_url = ChildInfo(adapters[1]).base_url
          /\ r_info.val.capabilities = ChildInfo(adapters[1]).capabilities

C18_Witness ==
    /\ r_pc = "failed"
    /\ r_mode = "new"
    /\ adapters = <<>>
    /\ r_result.some /\ ~r_result.val.ok
    /\ r_result.val.err.kind = "Validation"

\* C19: a call invokes only adapters among the first min(N, c), in list
\* order, each at most once; with c = 0 it invokes none and returns
\* Internal("failover router exhausted adapters without error"), and the
\* router returns that error in no other situation.
C19_PolicyCap ==
    LET c == policy.max_adapters_to_try IN
    /\ Len(r_calls) <= Min(Len(adapters), c)
    /\ r_calls = SubSeq(adapters, 1, Len(r_calls))
    /\ (c = 0 /\ r_pc = "done") =>
          /\ r_calls = <<>>
          /\ r_result = Some(Err(Internal(ExhaustedMessage)))
    /\ (r_result.some /\ ~r_result.val.ok
          /\ r_result.val.err = Internal(ExhaustedMessage)) =>
          c = 0 /\ r_calls = <<>>

C19_Witness ==
    /\ policy.max_adapters_to_try = 0
    /\ Len(adapters) = 2
    /\ r_mode = "chat_stream"
    /\ r_pc = "done"
    /\ r_calls = <<>>
    /\ r_result = Some(Err(Internal(ExhaustedMessage)))

\* C24: if the caller cancels a chat or chat_stream call of the router while
\* child adapter i is in flight, no child after i is ever started for that
\* call and the router produces no result for it.
C24_CancelStopsFailover ==
    /\ [](r_cancelled => r_result = None)
    /\ [][r_cancelled => (r_calls' = r_calls /\ r_result' = r_result)]_vars

\* a chat_stream call cancelled while the second of three children was in
\* flight, after the first had failed with a retryable error
C24_Witness ==
    /\ r_cancelled
    /\ r_mode = "chat_stream"
    /\ Len(adapters_to_try) = 3
    /\ r_calls = <<1, 2>>
    /\ Len(r_outcomes) = 1
    /\ ~r_outcomes[1].ok
    /\ r_result = None

(***************************************************************************)
(* Claims about the tool loop.                                             *)
(***************************************************************************)
\* the tool calls of the responses 1..k, in response order then call order
RECURSIVE CallsOfResponses(_)
CallsOfResponses(k) ==
    IF k = 0 THEN <<>>
    ELSE CallsOfResponses(k - 1) \o l_responses[k].tool_calls

\* C6: when the first model response carries no tool call, the loop (streaming
\* or not) has returned Ok with iterations = 1, that response as
\* final_response and no invocation, after one adapter call and no executor
\* call.
C6_NoToolCallsOneIteration ==
    (l_responses # <<>> /\ l_responses[1].tool_calls = <<>>) =>
        /\ l_pc = "done"
        /\ l_result = Some(Ok(ToolLoopResult(l_responses[1], <<>>, 1)))
        /\ Len(l_sent) = 1
        /\ Len(l_responses) = 1
        /\ l_exec = <<>>

C6_Witness ==
    /\ l_pc = "done"
    /\ use_streaming
    /\ options.max_iterations = 2
    /\ Len(l_responses) = 1
    /\ l_responses[1].tool_calls = <<>>
    /\ l_responses[1].output_text = "hh"

\* C7: when the first k responses carry tool calls and response k+1 carries
\* none (the executor never failing), the loop has returned Ok with
\* iterations = k+1, response k+1 as final_response, and one invocation per
\* tool call of the responses 1..k, in response order then call order, each
\* with the call's id, name and arguments and the executor's output.
C7_TerminatesAfterToolTurns ==
    \A k \in 0..(Len(l_responses) - 1) :
        (l_responses[k + 1].tool_calls = <<>>) =>
            LET calls == CallsOfResponses(k) IN
            /\ l_pc = "done"
            /\ Len(l_responses) = k + 1
            /\ Len(l_exec) = Len(calls)
            /\ \A i \in 1..Len(l_exec) : l_exec[i].result.ok
            /\ l_result =
                 Some(Ok(ToolLoopResult(
                    l_responses[k + 1],
                    [i \in 1..Len(calls) |->
                        [call_id |-> calls[i].id, name |-> calls[i].name,
                         input |-> calls[i].arguments,
                         output |-> l_exec[i].result.val]],
                    k + 1)))

C7_Witness ==
    /\ l_pc = "done"
    /\ Len(l_responses) = 2
    /\ l_responses[2].tool_calls = <<>>
    /\ Len(l_responses[1].tool_calls) = 2
    /\ l_responses[1].tool_calls[1].id # l_responses[1].tool_calls[2].id
    /\ l_exec[1].name # l_exec[2].name
    /\ Len(l_result.val.val.tool_invocations) = 2

\* all of the first max_iterations responses carried tool calls, every one of
\* them was executed without failure, and the loop is over
CapReached ==
    /\ l_pc = "done"
    /\ options.max_iterations >= 1
    /\ Len(l_responses) = options.max_iterations
    /\ \A i \in 1..Len(l_responses) : l_responses[i].tool_calls # <<>>
    /\ \A i \in 1..Len(l_exec) : l_exec[i].result.ok

\* C8: with max_iterations = N >= 1 and tool calls in each of the first N
\* responses, the loop returns Provider("tool loop exceeded max iterations
\* (N)") after exactly N adapter calls; an (N+1)-th adapter call never happens.
C8_IterationCap ==
    /\ l_op \in ToolOps => Len(l_sent) <= options.max_iterations
    /\ CapReached =>
          /\ l_result =
               Some(Err(Provider("tool loop exceeded max iterations ("
                                 \o ToString(options.max_iterations)
                                 \o ")")))
          /\ Len(l_sent) = options.max_iterations

C8_Witness ==
    /\ CapReached
    /\ options.max_iterations = 2
    /\ Len(l_exec) >= 3

\* C9: with max_iterations = 0 the loop (streaming or not) returns a
\* Validation error without calling the adapter or the executor.
C9_ZeroIterationsIsValidation ==
    (l_op \in ToolOps /\ options.max_iterations = 0 /\ l_pc # "entry") =>
        /\ l_pc = "done"
        /\ l_result.some
        /\ ~l_result.val.ok
        /\ l_result.val.err.kind = "Validation"
        /\ l_sent = <<>>
        /\ l_exec = <<>>

C9_Witness ==
    /\ l_op \in ToolOps
    /\ options.max_iterations = 0
    /\ l_pc = "done"
    /\ use_streaming
    /\ validate_request(request).ok
    /\ l_result = Some(Err(Validation("max_iterations must be greater than 0")))

\* C10: when the executor fails on a tool call, the loop returns at once
\* Provider("tool '<name>' execution failed: <error>") with the failing call's
\* name: the call is the last one executed, the calls after it in the
\* response stay unexecuted, and no further request is sent to the adapter.
C10_ExecutorFailureStops ==
    \A j \in 1..Len(l_exec) :
        ~l_exec[j].result.ok =>
            /\ j = Len(l_exec)
            /\ l_pc = "done"
            /\ l_result =
                 Some(Err(Provider("tool '" \o l_exec[j].name
                                   \o "' execution failed: "
                                   \o l_exec[j].result.err)))
            /\ Len(l_sent) = Len(l_responses)
            /\ l_pending # <<>>
            /\ Head(l_pending).name = l_exec[j].name
            /\ Len(l_exec) + Len(l_pending) - 1
                 = Len(CallsOfResponses(Len(l_responses)))

C10_Witness ==
    /\ l_pc = "done"
    /\ Len(l_responses) = 2
    /\ Len(l_exec) = 2
    /\ ~l_exec[2].result.ok
    /\ Len(l_pending) = 2
    /\ l_pending[1].name # l_pending[2].name
    /\ Len(l_sent) < options.max_iterations + 1

\* the Tool messages of the tool calls of response i, with the outputs the
\* executor gave
ToolMessagesOf(i) ==
    LET calls == l_responses[i].tool_calls
        done == Len(CallsOfResponses(i - 1))
    IN [j \in 1..Len(calls) |->
           Message("Tool", ToolMessageContent(calls[j],
                                              l_exec[done + j].result.val))]

\* each request sent after the first is the one before it, followed by the
\* Assistant message of the response and the Tool messages of its calls
HistoryGrows ==
    \A i \in 1..(Len(l_sent) - 1) :
        /\ l_responses[i].tool_calls # <<>>
        /\ l_sent[i + 1] =
              l_sent[i]
                 \o <<Message("Assistant", l_responses[i].output_text)>>
                 \o ToolMessagesOf(i)

\* C34: after a turn whose response carries n >= 1 tool calls (the executor
\* succeeding) the request's messages are the previous messages followed by
\* one Assistant message holding the response's output_text as it is
\* (possibly empty) and then n Tool messages in tool-call order; messages
\* are never removed, reordered or rewritten, so each request has the
\* messages of the one before as a strict prefix; model, temperature,
\* max_tokens, tools and metadata stay as the caller supplied them.
C34_HistoryGrowth ==
    /\ []HistoryGrows
    /\ [][/\ IsPrefix(request.messages, request'.messages)
          /\ request'.model = request.model
          /\ request'.temperature = request.temperature
          /\ request'.max_tokens = request.max_tokens
          /\ request'.tools = request.tools
          /\ request'.metadata = request.metadata]_vars

\* the second request of a loop whose first response had an empty text and
\* two tool calls: the user's message, an empty Assistant message, two Tool
\* messages
C34_Witness ==
    /\ l_op \in ToolOps
    /\ Len(l_sent) = 2
    /\ l_responses[1].output_text = ""
    /\ Len(l_responses[1].tool_calls) = 2
    /\ Len(l_sent[1]) = 1
    /\ Len(l_sent[2]) = 4
    /\ l_sent[2][2] = Message("Assistant", "")
    /\ l_sent[2][3].role = "Tool"
    /\ l_sent[2][4].role = "Tool"
    /\ l_sent[2][3] # l_sent[2][4]

\* the executor has not failed
NoExecFailure == \A i \in 1..Len(l_exec) : l_exec[i].result.ok

\* the loop has returned the max-iterations error
Exceeded ==
    /\ l_result.some
    /\ ~l_result.val.ok
    /\ l_result.val.err = Provider(ExceededMessage(options.max_iterations))

\* C35: in a run in which the executor never fails, the executor
\* invocations are the tool calls of all model responses received, in
\* response order then call order: at every moment those already made
\* followed by those pending, and all of them once the loop has returned -
\* also when it returns the max-iterations error, where the calls of the
\* last response have been executed and their results are dropped with the
\* invocations.
C35_ExecutionCount ==
    (l_op \in ToolOps /\ NoExecFailure) =>
        LET calls == CallsOfResponses(Len(l_responses)) IN
        /\ Len(l_exec) + Len(l_pending) = Len(calls)
        /\ \A i \in 1..Len(l_exec) :
              /\ l_exec[i].name = calls[i].name
              /\ l_exec[i].input = calls[i].arguments
        /\ l_pc = "done" => Len(l_exec) = Len(calls)
        /\ Exceeded =>
              /\ Len(l_responses) = options.max_iterations
              /\ l_responses[Len(l_responses)].tool_calls # <<>>
              /\ Len(l_exec) = Len(calls)

\* max_iterations = 1 and a response with two tool calls: both are executed
\* and the loop returns the max-iterations error
C35_Witness ==
    /\ l_op \in ToolOps
    /\ options.max_iterations = 1
    /\ Exceeded
    /\ Len(l_responses) = 1
    /\ Len(l_responses[1].tool_calls) = 2
    /\ Len(l_exec) = 2
    /\ NoExecFailure
    /\ l_exec[1].name # l_exec[2].name

\* C36: if the adapter call of an iteration fails (chat, or in streaming
\* mode the chat_stream handshake or an item of the stream), the loop returns
\* exactly that error, with its kind and message and not wrapped into
\* Provider; it makes no further adapter or executor call and returns no
\* ToolLoopResult, also when invocations were recorded in earlier iterations.
C36_AdapterErrorReturned ==
    /\ [](l_failed.some =>
            /\ l_pc = "done"
            /\ l_result = Some(Err(l_failed.val))
            /\ Len(l_sent) = Len(l_responses) + 1)
    /\ [][l_failed.some =>
            (l_sent' = l_sent /\ l_exec' = l_exec /\ l_result' = l_result)]_vars

\* streaming mode: the first iteration recorded an invocation, the stream of
\* the second yields a Transport error after a text: the loop returns that
\* Transport error
C36_Witness ==
    /\ use_streaming
    /\ l_pc = "done"
    /\ Len(l_sent) = 2
    /\ invocations # <<>>
    /\ l_failed = Some(Transport("m2"))
    /\ l_result = Some(Err(Transport("m2")))

\* the loop has returned Ok
ReturnedOk == l_result.some /\ l_result.val.ok

\* C37: for every behaviour of the model and the executor (each call
\* returning) the loop terminates, after at most max_iterations adapter
\* calls; whenever it returns Ok, iterations is the number of adapter calls
\* made, lies between 1 and max_iterations, and the final response carries
\* no tool calls.
C37_BoundedTermination ==
    /\ <>(l_pc = "done")
    /\ [](l_op \in ToolOps =>
            /\ Len(l_sent) <= options.max_iterations
            /\ ReturnedOk =>
                  /\ l_result.val.val.iterations = Len(l_sent)
                  /\ 1 <= l_result.val.val.iterations
                  /\ l_result.val.val.iterations <= options.max_iterations
                  /\ l_result.val.val.final_response.tool_calls = <<>>)

\* the loop has returned Ok at the last iteration it was allowed, after a
\* turn with tool calls
C37_Witness ==
    /\ l_op \in ToolOps
    /\ l_pc = "done"
    /\ ReturnedOk
    /\ options.max_iterations = MaxIterations
    /\ l_result.val.val.iterations = MaxIterations
    /\ Len(l_sent) = MaxIterations
    /\ l_exec # <<>>

(***************************************************************************)
(* Claims about the adapter streams.                                       *)
(***************************************************************************)
\* the stream has yielded an error item
StreamFailed == \E i \in 1..Len(s_out) : ~s_out[i].ok

\* C5: for every body delivered without an in-stream error and then closed,
\* the stream of each adapter yields exactly one Done and Done is its last
\* event: nothing is ever yielded after a Done.
C5_ExactlyOneDoneLast ==
    ~StreamFailed =>
        /\ \A i \in 1..(Len(s_out) - 1) : s_out[i] # Ok(Done)
        /\ s_pc = "end" => (s_out # <<>> /\ s_out[Len(s_out)] = Ok(Done))

RECURSIVE SplitLines(_)
\* the lines of a body: split at the line feeds, a carriage return before the
\* line feed dropped, an unterminated last line included
SplitLines(text) ==
    IF text = <<>> THEN <<>>
    ELSE LET e == Find(text, LF, 1) IN
         IF e = 0 THEN <<text>>
         ELSE <<PopCR(SubSeq(text, 1, e - 1))>>
              \o SplitLines(SubSeq(text, e + 1, Len(text)))

\* the text a payload of the menu carries
TextOf(payload) ==
    CASE payload \in {<<"{oa_text:a}">>, <<"{an_text:a}">>, <<"{ge_text:a}">>}
            -> "a"
      [] payload \in {<<"{oa_text:", "U+E9", "}">>, <<"{an_text:", "U+E9", "}">>,
                      <<"{ge_text:", "U+E9", "}">>} -> "U+E9"
      [] payload \in {<<"{oa_full}">>, <<"{ge_full}">>} -> "b"
      [] OTHER -> ""

\* the type field of an Anthropic payload of the menu
TypeOf(payload) ==
    CASE payload \in {<<"{an_text:a}">>, <<"{an_text:", "U+E9", "}">>}
            -> "content_block_delta"
      [] payload = <<"{an_stop}">> -> "message_stop"
      [] OTHER -> ""

\* a payload that is not a JSON document: the stream fails at its record
Malformed(payload) == payload # <<"[DONE]">> /\ ~JsonParse(payload).some

RECURSIVE DataLineTexts(_)
\* OpenAI and Gemini: every data line is a record; the non-empty texts of the
\* records up to the first malformed one
DataLineTexts(lines) ==
    IF lines = <<>> THEN <<>>
    ELSE IF ~StripPrefix(Head(lines), "data:").some
    THEN DataLineTexts(Tail(lines))
    ELSE LET payload == Trim(StripPrefix(Head(lines), "data:").val) IN
         IF Malformed(payload) THEN <<>>
         ELSE (IF TextOf(payload) # "" THEN <<TextOf(payload)>> ELSE <<>>)
              \o DataLineTexts(Tail(lines))

\* the text of one Anthropic record: that of a content_block_delta, named by
\* the record's event line or else by the type field of its data
RecordText(event, datas) ==
    LET payload == Join(datas, LF)
        name == IF event.some THEN event.val ELSE TypeOf(payload)
    IN IF name = "content_block_delta" /\ TextOf(payload) # ""
       THEN <<TextOf(payload)>> ELSE <<>>

RECURSIVE NamedRecordTexts(_, _, _)
\* Anthropic: a record is the lines between two blank lines (or the ends of
\* the body), its event line naming it and its data lines joined; the
\* non-empty texts of the records up to the first malformed one
NamedRecordTexts(lines, event, datas) ==
    IF lines = <<>>
    THEN IF datas # <<>> /\ ~Malformed(Join(datas, LF))
         THEN RecordText(event, datas) ELSE <<>>
    ELSE IF Head(lines) = <<>>
    THEN IF datas = <<>> THEN NamedRecordTexts(Tail(lines), None, <<>>)
         ELSE IF Malformed(Join(datas, LF)) THEN <<>>
         ELSE RecordText(event, datas)
              \o NamedRecordTexts(Tail(lines), None, <<>>)
    ELSE IF StripPrefix(Head(lines), "event:").some
    THEN NamedRecordTexts(
             Tail(lines),
             Some(Concat(Trim(StripPrefix(Head(lines), "event:").val))), datas)
    ELSE IF StripPrefix(Head(lines), "data:").some
    THEN NamedRecordTexts(
             Tail(lines), event,
             Append(datas, Trim(StripPrefix(Head(lines), "data:").val)))
    ELSE NamedRecordTexts(Tail(lines), event, datas)

\* the non-empty text payloads of the records of the body, in arrival order
UpstreamTexts ==
    IF provider = "anthropic"
    THEN NamedRecordTexts(SplitLines(Utf8Decode(upstream)), None, <<>>)
    ELSE DataLineTexts(SplitLines(Utf8Decode(upstream)))

RECURSIVE TextDeltas(_)
\* the texts of the TextDelta events among the items of a stream
TextDeltas(items) ==
    IF items = <<>> THEN <<>>
    ELSE (IF Head(items).ok /\ Head(items).val.type = "TextDelta"
          THEN <<Head(items).val.delta>> ELSE <<>>)
         \o TextDeltas(Tail(items))

\* the stream has ended on a Transport error (a failed or undecodable chunk)
TransportFailed ==
    \E i \in 1..Len(s_out) : ~s_out[i].ok /\ s_out[i].err.kind = "Transport"

\* C15: within one stream of any adapter, the sequence of TextDelta events
\* is the sequence of non-empty text payloads of the upstream records in
\* arrival order: at every moment a prefix of it, and all of it once the
\* stream has ended without a Transport error; no text is reordered,
\* duplicated or dropped.
C15_TextDeltasAreRecordTexts ==
    /\ IsPrefix(TextDeltas(s_out), UpstreamTexts)
    /\ (s_pc = "end" /\ ~TransportFailed) => TextDeltas(s_out) = UpstreamTexts

\* the items of a sequence of events
Oks(events) == [i \in 1..Len(events) |-> Ok(events[i])]

\* what a line does when the whole body is in the buffer
WholeLine(p, raw, name, lines) ==
    CASE p = "openai" -> OpenAiLine(raw)
      [] p = "gemini" -> GeminiLine(raw)
      [] p = "anthropic" -> AnthropicLineOn(raw, name, lines).step

WholeFlush(p, rest, name, lines) ==
    CASE p = "openai" -> OpenAiFlush(rest)
      [] p = "gemini" -> GeminiFlush(rest)
      [] p = "anthropic" -> AnthropicFlushOn(name, lines)

\* the step leaves saw_done set
SeesDone(p, step, saw) ==
    \/ saw
    \/ step.literal_done
    \/ /\ p \in {"anthropic", "gemini"}
       /\ \E i \in 1..Len(step.events) : step.events[i] = Done

RECURSIVE WholeRun(_, _, _, _, _)
\* the items the stream of adapter p yields when the body arrives as one
\* chunk: line by line, then the flush at the close, then the final Done
WholeRun(p, buf, name, lines, saw) ==
    LET line_end == Find(buf, LF, 1) IN
    IF line_end = 0
    THEN LET step == WholeFlush(p, buf, name, lines) IN
         IF step.err.some THEN <<Err(step.err.val)>>
         ELSE Oks(step.events)
              \o (IF SeesDone(p, step, saw) THEN <<>> ELSE <<Ok(Done)>>)
    ELSE LET raw == SubSeq(buf, 1, line_end - 1)
             rest == SubSeq(buf, line_end + 1, Len(buf))
             step == WholeLine(p, raw, name, lines)
             after == AnthropicLineOn(raw, name, lines)
         IN IF step.err.some THEN <<Err(step.err.val)>>
            ELSE Oks(step.events)
                 \o WholeRun(p, rest,
                             IF p = "anthropic" THEN after.event_name ELSE name,
                             IF p = "anthropic" THEN after.data_lines
                             ELSE lines,
                             SeesDone(p, step, saw))

WholeBody == WholeRun(provider, Utf8Decode(upstream), None, <<>>, FALSE)

\* C20: for each adapter, the sequence of events emitted for an upstream
\* body does not depend on how the body is divided into chunks, for every
\* division whose boundaries fall between complete characters (a division
\* that cuts a character, or a failed read, ends in a Transport error): the
\* items yielded are at every moment a prefix of, and at the end equal to,
\* the items yielded when the body arrives as one chunk.
C20_ChunkingIndependent ==
    ~TransportFailed =>
        /\ IsPrefix(s_out, WholeBody)
        /\ s_pc = "end" => s_out = WholeBody

\* a chunk has ended between the carriage return and the line feed of a data
\* line inside an Anthropic record, after the event line of that record
C20_Witness ==
    /\ provider = "anthropic"
    /\ s_pc = "read"
    /\ event_name = Some("content_block_delta")
    /\ buffer = <<"data:", "{an_text:", "U+E9", "}", CR>>
    /\ u_pos < Len(upstream)
    /\ upstream[u_pos + 1] = LF
    /\ ~TransportFailed

\* a read of the upstream body failed
ReadFailed ==
    \E i \in 1..Len(s_out) :
        s_out[i] = Err(Transport("stream chunk error: reset"))

\* C21: for each adapter, when a valid two-byte character of the body is
\* divided between two consecutive chunks, the bytes are kept until the
\* character is complete: unless a read fails, the items yielded are at every
\* moment a prefix of, and at the end equal to, the items yielded for the
\* undivided body, and no Transport error is among them.
C21_PartialUtf8Tolerated ==
    ~ReadFailed =>
        /\ IsPrefix(s_out, WholeBody)
        /\ s_pc = "end" => s_out = WholeBody

\* the events of one data line of an OpenAI or Gemini body
LineEvents(p, payload) ==
    IF payload = <<"[DONE]">> THEN <<Done>>
    ELSE IF p = "openai" THEN OpenAiStreamEvents(JsonParse(payload).val)
    ELSE GeminiStreamEvents(JsonParse(payload).val)

RECURSIVE PrecedingEvents(_, _, _)
\* the events of the complete records of a body that precede its first
\* malformed record: for OpenAI and Gemini a record is a data line, for
\* Anthropic the data lines up to a blank line
PrecedingEvents(p, lines, datas) ==
    IF lines = <<>> THEN <<>>
    ELSE IF p = "anthropic" /\ Head(lines) = <<>>
    THEN IF datas = <<>> THEN PrecedingEvents(p, Tail(lines), <<>>)
         ELSE IF Malformed(Join(datas, LF)) THEN <<>>
         ELSE AnthropicStreamEvents(JsonParse(Join(datas, LF)).val, None)
              \o PrecedingEvents(p, Tail(lines), <<>>)
    ELSE IF ~StripPrefix(Head(lines), "data:").some
    THEN PrecedingEvents(p, Tail(lines), datas)
    ELSE LET payload == Trim(StripPrefix(Head(lines), "data:").val) IN
         IF p = "anthropic"
         THEN PrecedingEvents(p, Tail(lines), Append(datas, payload))
         ELSE IF Malformed(payload) THEN <<>>
         ELSE LineEvents(p, payload) \o PrecedingEvents(p, Tail(lines), datas)

\* the events of the records of the first k characters of the body
EventsOfPrefix(k) ==
    Oks(PrecedingEvents(provider,
                        SplitLines(SubSeq(Utf8Decode(upstream), 1, k)), <<>>))

\* the items yielded before the last one
Front(items) == SubSeq(items, 1, Len(items) - 1)

\* the error is the last item, the generator has ended, and what was yielded
\* before is what the records before the failure give
EndsAtFirstError ==
    StreamFailed =>
        /\ s_pc = "end"
        /\ \A i \in 1..(Len(s_out) - 1) : s_out[i].ok
        /\ LET e == s_out[Len(s_out)].err
               body == Utf8Decode(upstream)
           IN IF e.kind = "Provider"
              THEN Front(s_out) = EventsOfPrefix(Len(body))
              ELSE /\ e.kind = "Transport"
                   /\ \E k \in 0..Len(body) :
                        /\ k = 0 \/ body[k] = LF
                        /\ Front(s_out) = EventsOfPrefix(k)

C23_CallerDriven ==
    [][/\ u_pos' # u_pos => (s_caller = "polling" /\ s_queue = <<>>)
       /\ s_caller # "polling" => (u_pos' = u_pos /\ s_out' = s_out)
       /\ s_caller = "dropped" => s_caller' = "dropped"]_vars

\* the caller has dropped the stream after the first event of a payload of
\* several events, with events parsed but not delivered, no Done delivered
\* and a part of the body not read
C23_Witness ==
    /\ s_caller = "dropped"
    /\ s_pc = "yield"
    /\ s_queue # <<>>
    /\ Len(s_out) = 1
    /\ s_out[1] # Ok(Done)
    /\ u_pos < Len(upstream)

\* the stream has yielded a Done
HasDone(items) == \E i \in 1..Len(items) : items[i] = Ok(Done)

\* the body holds a terminal record: a [DONE] payload (OpenAI, Gemini), a
\* payload with finishReason (Gemini), a message_stop (Anthropic)
TerminalInBody ==
    \E i \in 1..Len(SplitLines(Utf8Decode(upstream))) :
        LET line == SplitLines(Utf8Decode(upstream))[i] IN
        /\ StripPrefix(line, "data:").some
        /\ Trim(StripPrefix(line, "data:").val)
             \in {<<"[DONE]">>, <<"{ge_full}">>, <<"{an_stop}">>}

\* C30: for each adapter, when the upstream closes and the stream has not
\* failed, the generator ends by synthesizing a Done exactly if it has not
\* emitted one: for a body without a terminal record the stream ends with
\* one Done, its last event; after a Done was emitted none is added at the
\* close.
C30_DoneAtClose ==
    /\ []((s_pc = "end" /\ ~StreamFailed) =>
            /\ HasDone(s_out)
            /\ ~TerminalInBody =>
                  /\ s_out[Len(s_out)] = Ok(Done)
                  /\ ~HasDone(Front(s_out)))
    /\ [][(s_pc = "final" /\ s_pc' = "end") =>
             s_out' = IF HasDone(s_out) THEN s_out
                      ELSE Append(s_out, Ok(Done))]_vars

\* OpenAI: a body of one text record and no [DONE], closed: the text, then
\* the synthesized Done
C30_Witness ==
    /\ provider = "openai"
    /\ upstream = <<"data:", "{oa_text:", "C3", "A9", "}", LF>>
    /\ s_pc = "end"
    /\ s_out = <<Ok(TextDelta("U+E9")), Ok(Done)>>

\* the body with its last line terminated
Completed(body) ==
    IF body = <<>> \/ body[Len(body)] = LF THEN body ELSE Append(body, LF)

\* the items of the body whose last line has its terminator
CompletedBody ==
    WholeRun(provider, Completed(Utf8Decode(upstream)), None, <<>>, FALSE)

\* C31: for each adapter, when the upstream closes, what is still pending in
\* the parser (an unterminated last line in the line buffer, for Anthropic
\* also the record whose blank line never arrived) is parsed and its events
\* are emitted once, before the final Done: a stream that ends without a
\* Transport error has yielded the items of the same body with its last line
\* terminated, and no pending data line is discarded.
C31_EofFlush ==
    (s_pc = "end" /\ ~TransportFailed) => s_out = CompletedBody

\* the lines the generator has taken off its buffer
Consumed ==
    LET got == Utf8Decode(SubSeq(upstream, 1, u_pos)) IN
    SplitLines(SubSeq(got, 1, Len(got) - Len(buffer)))

RECURSIVE NameInRecord(_, _)
\* the name given by the last event line since the last blank line
NameInRecord(lines, name) ==
    IF lines = <<>> THEN name
    ELSE IF Head(lines) = <<>> THEN NameInRecord(Tail(lines), None)
    ELSE IF StripPrefix(Head(lines), "event:").some
    THEN NameInRecord(
             Tail(lines),
             Some(Concat(Trim(StripPrefix(Head(lines), "event:").val))))
    ELSE NameInRecord(Tail(lines), name)

RECURSIVE DataInRecord(_, _)
\* the payloads of the data lines since the last blank line
DataInRecord(lines, datas) ==
    IF lines = <<>> THEN datas
    ELSE IF Head(lines) = <<>> THEN DataInRecord(Tail(lines), <<>>)
    ELSE IF StripPrefix(Head(lines), "data:").some
    THEN DataInRecord(Tail(lines),
                      Append(datas, Trim(StripPrefix(Head(lines), "data:").val)))
    ELSE DataInRecord(Tail(lines), datas)

\* C32: in the Anthropic stream every blank line flushes and resets the
\* pending record: the pending event name is the name given by an event line
\* of the record being read (the lines since the last blank line) and the
\* pending data lines are the data lines of that record, so a name of an
\* earlier record is never applied to the data of a later one and no data
\* line is parsed twice.
C32_RecordScoped ==
    (provider = "anthropic" /\ ~TransportFailed) =>
        /\ event_name = NameInRecord(Consumed, None)
        /\ data_lines = DataInRecord(Consumed, <<>>)

(***************************************************************************)
(* Claims about the Client operations.                                     *)
(***************************************************************************)
\* the model is empty or whitespace-only, or there is no message
RequestInvalid ==
    \/ \A i \in 1..Len(request.model) : request.model[i] \in Whitespace
    \/ request.messages = <<>>

\* C11: once any of the four Client operations has passed its entry, a
\* request with a blank model or without messages has made it return
\* Validation with no adapter call and no executor call; a request with a
\* non-blank model and a message passes validate_request, and chat and
\* chat_stream then hand it to the adapter.
C11_InvalidRequestIsRejected ==
    /\ (RequestInvalid /\ l_pc # "entry") =>
          /\ l_pc = "done"
          /\ l_result.some
          /\ ~l_result.val.ok
          /\ l_result.val.err.kind = "Validation"
          /\ l_sent = <<>>
          /\ l_exec = <<>>
    /\ ~RequestInvalid =>
          /\ validate_request(request).ok
          /\ (l_op \in ClientOps /\ l_pc # "entry") => Len(l_sent) = 1

C11_Witness ==
    /\ l_op = "chat_stream"
    /\ l_pc = "done"
    /\ request.model = <<" ">>
    /\ request.messages # <<>>
    /\ l_result = Some(Err(Validation("model cannot be empty")))

(***************************************************************************)
(* Claims about the tool loop against a scripted adapter.                  *)
(***************************************************************************)
RECURSIVE FirstFinal(_, _)
\* the index of the first turn from i on that carries no tool call, 0 when
\* every turn carries one
FirstFinal(turns, i) ==
    IF i > Len(turns) THEN 0
    ELSE IF turns[i].calls = <<>> THEN i
    ELSE FirstFinal(turns, i + 1)

\* what the script determines: the invocations of the turns before turn n,
\* with the output of the executor for the call's input
ScriptInvocations(turns, n) ==
    [i \in 1..(n - 1) |->
        [call_id |-> turns[i].calls[1].id, name |-> turns[i].calls[1].name,
         input |-> turns[i].calls[1].arguments,
         output |-> JObj([echo |-> turns[i].calls[1].arguments])]]

\* C12: against a script of turns with at most one tool call each, the
\* result of chat_with_tools and of chat_with_tools_streaming is the same
\* function of the script: an Ok result has iterations = n, the invocations
\* of the turns before n and the text of turn n, where n is the first turn
\* without a tool call; and the loop returns Ok whenever the request and the
\* options are valid, n exists within max_iterations and no executor call
\* failed.
C12_StreamingLoopEquivalent ==
    (l_op \in ToolOps /\ l_pc = "done") =>
        LET n == FirstFinal(script.val, 1) IN
        /\ l_result.val.ok =>
              /\ n >= 1
              /\ l_result.val.val.iterations = n
              /\ l_result.val.val.tool_invocations
                   = ScriptInvocations(script.val, n)
              /\ l_result.val.val.final_response.output_text
                   = Concat(script.val[n].text)
        /\ ~l_result.val.ok =>
              \/ RequestInvalid
              \/ options.max_iterations = 0
              \/ n = 0
              \/ n > options.max_iterations
              \/ \E j \in 1..Len(l_exec) : ~l_exec[j].result.ok

C12_Witness ==
    /\ l_op = "chat_with_tools_streaming"
    /\ l_pc = "done"
    /\ l_result.val.ok
    /\ Len(script.val) = 2
    /\ script.val[1].text = <<"h", "i">>
    /\ script.val[1].calls # <<>>
    /\ script.val[1].calls[1].id = "c2"
    /\ script.val[2].text = <<"h", "i">>
    /\ l_result.val.val.iterations = 2

\* the Tool-role messages of the request, in order
ToolMessages == SelectSeq(request.messages, LAMBDA m : m.role = "Tool")

\* C26: for every tool call the loop executes, the call_id of the recorded
\* ToolInvocation and the tool_call_id field of the Tool-role message
\* appended for it both equal the id of that ToolCall in the model response
\* (in streaming mode the call_id of its ToolCallDelta), and the name and the
\* output are the call's name and the executor's result.
C26_ToolCallIdRoundTrips ==
    l_op \in ToolOps =>
        /\ Len(ToolMessages) = Len(invocations)
        /\ Len(invocations) <= Len(l_exec)
        /\ \A k \in 1..Len(invocations) :
              /\ k <= Len(script.val)
              /\ script.val[k].calls # <<>>
              /\ l_exec[k].result.ok
              /\ LET call == script.val[k].calls[1]
                     out == l_exec[k].result.val
                 IN /\ invocations[k].call_id = call.id
                    /\ invocations[k].name = call.name
                    /\ JsonText(invocations[k].output) = JsonText(out)
                    /\ ToolMessages[k].content =
                         "{name:'" \o call.name \o "',output:" \o JsonText(out)
                            \o ",tool_call_id:'" \o call.id \o "'}"

\* a streaming loop has executed the call c2 of the first turn and the call
\* c1 of the second
C26_Witness ==
    /\ l_op = "chat_with_tools_streaming"
    /\ Len(invocations) = 2
    /\ invocations[1].call_id = "c2"
    /\ invocations[2].call_id = "c1"
    /\ Len(ToolMessages) = 2

(***************************************************************************)
(* Claims about the adapters in front of one upstream.                     *)
(***************************************************************************)
\* the upstream answered 2xx with the fixture, and both readings are finished
FixtureRead ==
    /\ f_pc = "done"
    /\ f_upstream.reached /\ IsSuccess(f_upstream.status) /\ f_upstream.json
    /\ f_chat.some /\ f_collected.some

\* C13: when the upstream expresses one complete tool call, the ToolCall
\* obtained by streaming (the adapter's ToolCallDelta projected by
\* chat_stream_collect) has the same id, name and arguments as the ToolCall
\* the adapter's non-streaming response parser produces, for every adapter.
C13_StreamedToolCallMatches ==
    (FixtureRead /\ f_upstream.fixture.call.some) =>
        /\ f_chat.val.ok /\ f_collected.val.ok
        /\ Len(f_chat.val.val.tool_calls) = 1
        /\ Len(f_collected.val.val.tool_calls) = 1
        /\ f_collected.val.val.tool_calls[1].id = f_chat.val.val.tool_calls[1].id
        /\ f_collected.val.val.tool_calls[1].name
               = f_chat.val.val.tool_calls[1].name
        /\ JsonText(f_collected.val.val.tool_calls[1].arguments)
               = JsonText(f_chat.val.val.tool_calls[1].arguments)

\* the Usage values the adapter has returned so far: that of the chat
\* response and those of the stream's Usage events
ReturnedUsages ==
    (IF f_chat.some /\ f_chat.val.ok /\ f_chat.val.val.usage.some
     THEN {f_chat.val.val.usage.val} ELSE {})
    \cup {f_events[i].usage :
            i \in {j \in 1..Len(f_events) : f_events[j].type = "Usage"}}

\* C14: for every adapter and every upstream usage object with both
\* component counters, the Usage returned in the ChatResponse or in a Usage
\* stream event has total_tokens = input_tokens + output_tokens (saturating
\* at 2^32 - 1, which the counters of the fixtures stay far below), whatever
\* total the upstream reported.
C14_TotalIsSaturatingSum ==
    (/\ f_upstream.fixture.usage.input.some
     /\ f_upstream.fixture.usage.output.some) =>
        \A u \in ReturnedUsages :
            u.total_tokens = SaturatingAdd(u.input_tokens, u.output_tokens)

RECURSIVE TextUpToDone(_)
\* the concatenation of the TextDelta.delta values of a stream up to Done
TextUpToDone(events) ==
    IF events = <<>> \/ Head(events).type = "Done" THEN ""
    ELSE (IF Head(events).type = "TextDelta" THEN Head(events).delta ELSE "")
         \o TextUpToDone(Tail(events))

\* C16: for each adapter and an upstream that produces the same ordered text
\* parts in streaming and in non-streaming form, the concatenation of the
\* TextDelta.delta values chat_stream emits up to Done equals the
\* output_text chat returns (and the output_text chat_stream_collect builds).
C16_StreamTextEqualsChatText ==
    FixtureRead =>
        /\ f_chat.val.ok /\ f_collected.val.ok
        /\ TextUpToDone(f_events) = f_chat.val.val.output_text
        /\ f_chat.val.val.output_text = Concat(f_upstream.fixture.texts)
        /\ f_collected.val.val.output_text = f_chat.val.val.output_text

C16_Witness ==
    /\ FixtureRead
    /\ f_provider = "openai"
    /\ f_upstream.fixture.form = "parts"
    /\ f_upstream.fixture.texts = <<"a", "b">>
    /\ f_upstream.fixture.call.some
    /\ f_chat.val.val.output_text = "ab"
    /\ Len(f_events) >= 4
    /\ f_events[1] = TextDelta("a")
    /\ f_events[2] = TextDelta("b")

\* the provider message of an error answer: error.message of a JSON body,
\* else the raw body
ExpectedMessage ==
    CASE f_upstream.body = Some("{error:{message:boom}}") -> "boom"
      [] f_upstream.body = None -> "failed to read error body"
      [] OTHER -> f_upstream.body.val

\* the canonical error of the upstream's non-2xx status
ExpectedError ==
    CASE f_upstream.status \in {401, 403} -> Authentication
      [] f_upstream.status = 429 -> RateLimited
      [] OTHER -> Provider(ExpectedMessage)

StatusMapped(result) ==
    /\ ~result.ok
    /\ result.err.kind \in {"Authentication", "RateLimited", "Provider"}

\* chat and the chat_stream handshake answer a non-2xx status with its
\* canonical error, and the handshake returns no stream
NonSuccessIsMapped ==
    (f_upstream.reached /\ ~IsSuccess(f_upstream.status)) =>
        /\ f_chat.some => f_chat.val = Err(ExpectedError)
        /\ f_stream.some => f_stream.val = Err(ExpectedError)
        /\ f_events = <<>> /\ f_collected = None

\* C17 as stated: for every adapter, in chat and in the chat_stream
\* handshake, a non-2xx status is mapped to exactly one canonical error
\* (401, 403: Authentication; 429: RateLimited; any other: Provider(message)),
\* no stream is returned for a non-2xx handshake, and a 2xx status never
\* yields an Authentication, RateLimited or Provider error.
C17_StatusMapping ==
    /\ NonSuccessIsMapped
    /\ (f_upstream.reached /\ IsSuccess(f_upstream.status)) =>
          /\ f_chat.some => ~StatusMapped(f_chat.val)
          /\ f_stream.some => ~StatusMapped(f_stream.val)

\* C17 amended: the mapping of the non-2xx statuses holds as stated; on a 2xx
\* status the handshake always returns a stream, and chat returns a response
\* unless the body is not JSON, which it reports as
\* Provider("invalid json response: ..."), never as Authentication or
\* RateLimited.
C17_StatusMappingAmended ==
    /\ NonSuccessIsMapped
    /\ (f_upstream.reached /\ IsSuccess(f_upstream.status)) =>
          /\ f_chat.some =>
                IF f_upstream.json THEN f_chat.val.ok
                ELSE f_chat.val = Err(Provider("invalid json response: e"))
          /\ f_stream.some => f_stream.val.ok

C17_Witness ==
    /\ f_pc = "done"
    /\ f_provider = "gemini"
    /\ f_upstream.reached
    /\ f_upstream.status = 403
    /\ f_upstream.body = Some("{error:{message:boom}}")
    /\ f_chat = Some(Err(Authentication))
    /\ f_stream = Some(Err(Authentication))
    /\ f_events = <<>>

(***************************************************************************)
(* Claims about the stream collector.                                      *)
(***************************************************************************)
\* the index of the first Done among the items, one past the end without it
RECURSIVE DoneAt(_, _)
DoneAt(items, i) ==
    IF i > Len(items) \/ items[i] = Ok(Done) THEN i
    ELSE DoneAt(items, i + 1)

\* the items that precede the first Done
BeforeDone == SubSeq(c_stream.val, 1, DoneAt(c_stream.val, 1) - 1)

\* chat_stream_collect has returned a response
Collected == c_pc = "done" /\ c_result.val.ok

\* C27: the collected response depends only on the events preceding the
\* first Done (or on all events if the stream closes without Done): it is a
\* response the collector gives for that prefix alone; output_text is the
\* concatenation, in arrival order, of every TextDelta in that prefix; and
\* the collector never polls the stream again after it received Done.
C27_CollectsUpToDone ==
    /\ (c_stream.ok /\ c_pc \in {"loop", "build", "done"}) =>
          c_polled <= Min(DoneAt(c_stream.val, 1), Len(c_stream.val))
    /\ Collected =>
          /\ c_result.val.val.output_text = Concat(TextDeltas(BeforeDone))
          /\ c_result.val \in chat_stream_collect(c_req, Ok(BeforeDone))

\* a text, Done, and a text after Done that is never polled
C27_Witness ==
    /\ Collected
    /\ c_stream.val = <<Ok(TextDelta("a")), Ok(Done), Ok(TextDelta("b"))>>
    /\ c_polled = 2
    /\ c_result.val.val.output_text = "a"

RECURSIVE LastUsage(_)
\* the usage of the last Usage event among the items, if there is one
LastUsage(items) ==
    IF items = <<>> THEN None
    ELSE LET last == items[Len(items)] IN
         IF last.ok /\ last.val.type = "Usage" THEN Some(last.val.usage)
         ELSE LastUsage(SubSeq(items, 1, Len(items) - 1))

\* C28: the usage of the collected response is None if no Usage event
\* precedes the first Done, and otherwise the usage of the last Usage event
\* before Done, however the Usage events are interleaved with the TextDelta
\* and ToolCallDelta events.
C28_LastUsageWins ==
    Collected => c_result.val.val.usage = LastUsage(BeforeDone)

\* two Usage events around a text, the stream closed without Done
C28_Witness ==
    /\ Collected
    /\ c_stream.val = <<Ok(UsageEvent(Usage(4, 5, 9))), Ok(TextDelta("a")),
                        Ok(UsageEvent(Usage(1, 2, 3)))>>
    /\ c_result.val.val.usage = Some(Usage(1, 2, 3))

\* the positions of the ToolCallDelta events for a call_id among the items
DeltasFor(items, id) ==
    {i \in 1..Len(items) :
        /\ items[i].ok
        /\ items[i].val.type = "ToolCallDelta"
        /\ items[i].val.call_id = id}

\* the call_ids of the ToolCallDelta events among the items
CallIds(items) == {id \in {"c1", "c2"} : DeltasFor(items, id) # {}}

\* the last delta received for a call_id
LastDelta(items, id) ==
    LET at == CHOOSE i \in DeltasFor(items, id) :
                  \A j \in DeltasFor(items, id) : j <= i
    IN items[at].val.delta

\* C29: the collected response holds exactly one ToolCall per distinct
\* call_id seen in the ToolCallDelta events before Done (as a set, in any
\* order), each built from the last delta received for that call_id alone.
C29_OneCallPerId ==
    Collected =>
        LET calls == c_result.val.val.tool_calls IN
        /\ Len(calls) = Cardinality(CallIds(BeforeDone))
        /\ {calls[k].id : k \in 1..Len(calls)} = CallIds(BeforeDone)
        /\ \A k \in 1..Len(calls) :
              LET last == LastDelta(BeforeDone, calls[k].id) IN
              /\ calls[k].name = DeltaName(last)
              /\ JsonText(calls[k].arguments) = JsonText(DeltaArguments(last))

\* two deltas for c1 and one for c2: the call c1 is the second delta's
C29_Witness ==
    /\ Collected
    /\ Len(c_stream.val) = 3
    /\ DeltasFor(c_stream.val, "c1") = {1, 2}
    /\ c_stream.val[2].val.delta # c_stream.val[1].val.delta
    /\ DeltasFor(c_stream.val, "c2") = {3}
    /\ Len(c_result.val.val.tool_calls) = 2
    /\ c_result.val.val.tool_calls[1].id = "c2"
    /\ c_result.val.val.tool_calls[2].name = "t2"

(***************************************************************************)
(* Claims about concurrent callers.                                        *)
(***************************************************************************)
RECURSIVE RouterAlone(_, _, _)
\* what a router call returns when it runs alone and its children answer
\* with outs, in order; None while the call is not over
RouterAlone(outs, i, last) ==
    IF i > Len(outs)
    THEN IF Len(outs) >= Len(adapters_to_try)
         THEN Some(Err(IF last.some THEN last.val
                       ELSE Internal(ExhaustedMessage)))
         ELSE None
    ELSE IF outs[i].ok THEN Some(outs[i])
    ELSE IF IsRetryable(outs[i].err)
    THEN RouterAlone(outs, i + 1, Some(outs[i].err))
    ELSE Some(outs[i])

RECURSIVE LoopAlone(_, _, _, _)
\* the history, the invocations and the result of a tool loop that runs
\* alone, its adapter answering with resps and its executor with exs (every
\* answer carries at most one tool call)
LoopAlone(resps, exs, i, st) ==
    IF i > Len(resps) THEN st
    ELSE IF ~resps[i].ok
    THEN [st EXCEPT !.result = Some(Err(resps[i].err))]
    ELSE IF resps[i].val.tool_calls = <<>>
    THEN [st EXCEPT !.result =
             Some(Ok([final_response |-> resps[i].val,
                      tool_invocations |-> st.invocations,
                      iterations |-> i]))]
    ELSE LET call == resps[i].val.tool_calls[1]
             asked == [st EXCEPT !.messages =
                          Append(@, Message("Assistant",
                                            resps[i].val.output_text))]
         IN IF i > Len(exs) THEN asked
            ELSE IF ~exs[i].ok
            THEN [asked EXCEPT !.result =
                     Some(Err(Provider("tool '" \o call.name
                                       \o "' execution failed: "
                                       \o exs[i].err)))]
            ELSE LoopAlone(
                     resps, exs, i + 1,
                     [messages |->
                          Append(asked.messages,
                                 Message("Tool",
                                         ToolMessageContent(call, exs[i].val))),
                      invocations |->
                          Append(asked.invocations,
                                 [call_id |-> call.id, name |-> call.name,
                                  input |-> call.arguments,
                                  output |-> exs[i].val]),
                      result |-> None])

\* the call of caller c is what it would be alone
RouterCallAlone(c) ==
    LET call == sh_calls[c] IN
    /\ call.tried = SubSeq(adapters_to_try, 1, Len(call.tried))
    /\ call.last_error =
          (IF \E i \in 1..Len(call.outcomes) :
                  ~call.outcomes[i].ok /\ IsRetryable(call.outcomes[i].err)
           THEN Some(call.outcomes[
                         CHOOSE i \in 1..Len(call.outcomes) :
                             /\ ~call.outcomes[i].ok
                             /\ IsRetryable(call.outcomes[i].err)
                             /\ \A j \in (i + 1)..Len(call.outcomes) :
                                    call.outcomes[j].ok
                                    \/ ~IsRetryable(call.outcomes[j].err)].err)
           ELSE None)
    /\ call.result = IF call.pc = "done"
                     THEN RouterAlone(call.outcomes, 1, None) ELSE None

LoopCallAlone(c) ==
    LET call == sh_calls[c]
        ref == LoopAlone(call.responses, call.execs, 1,
                         [messages |-> <<Message("User", "q")>>,
                          invocations |-> <<>>, result |-> None])
    IN /\ call.messages = ref.messages
       /\ call.invocations = ref.invocations
       /\ call.iteration = Len(ref.invocations)
       /\ call.result =
            IF call.pc # "done" THEN None
            ELSE IF ref.result.some THEN ref.result
            ELSE Some(Err(Provider(
                     "tool loop exceeded max iterations ("
                        \o ToString(SharedOptions.max_iterations) \o ")")))

\* C25: when two callers run chat, chat_stream or a tool loop concurrently
\* through the same FailoverRouter / Client, in every interleaving each call
\* tries the adapters in list order, keeps its own last error, message
\* history, invocation list and iteration count, and returns the result it
\* would return if it ran alone against the same child outcomes.
C25_CallersDoNotInterfere ==
    \A c \in DOMAIN sh_calls :
        IF sh_calls[c].op \in RouterOps
        THEN RouterCallAlone(c)
        ELSE LoopCallAlone(c)

\* caller 1 has given up with the RateLimited of its second child while
\* caller 2, still in flight on its second child, holds a Provider error
C25_Witness ==
    /\ sh_calls # <<>>
    /\ sh_calls[1].op = "chat"
    /\ sh_calls[1].pc = "done"
    /\ sh_calls[1].tried = <<1, 2>>
    /\ sh_calls[1].result = Some(Err(RateLimited))
    /\ sh_calls[2].op = "chat_stream"
    /\ sh_calls[2].pc = "await"
    /\ sh_calls[2].tried = <<1, 2>>
    /\ sh_calls[2].last_error = Some(Provider("m1"))

\* the index of the first error item among the items, one past the end
\* without one
RECURSIVE ErrAt(_, _)
ErrAt(items, i) ==
    IF i > Len(items) \/ ~items[i].ok THEN i
    ELSE ErrAt(items, i + 1)

\* the stream was opened and chat_stream_collect has returned
CollectReturned == c_pc = "done" /\ c_stream.ok /\ validate_request(c_req).ok

\* the stream holds an error item and no Done precedes it
ErrorBeforeDone ==
    /\ ErrAt(c_stream.val, 1) <= Len(c_stream.val)
    /\ ErrAt(c_stream.val, 1) < DoneAt(c_stream.val, 1)

\* the stream holds a Done and an error item after it
ErrorAfterDone ==
    /\ DoneAt(c_stream.val, 1) < ErrAt(c_stream.val, 1)
    /\ ErrAt(c_stream.val, 1) <= Len(c_stream.val)

\* C38: if the stream yields an error item before any Done,
\* chat_stream_collect returns that error and no ChatResponse, whatever text,
\* usage and tool-call deltas it had accumulated, and the error item is the
\* last item it polled; an error item positioned after Done is never polled
\* and the call returns a response.
C38_CollectorErrors ==
    /\ (CollectReturned /\ ErrorBeforeDone) =>
          /\ c_result
                = Some(Err(c_stream.val[ErrAt(c_stream.val, 1)].err))
          /\ c_polled = ErrAt(c_stream.val, 1)
    /\ (c_stream.ok /\ ErrorAfterDone) =>
          /\ c_polled < ErrAt(c_stream.val, 1)
          /\ CollectReturned => c_result.val.ok

\* a text was accumulated, then the stream yields an error; the Done after
\* it is never polled
C38_Witness ==
    /\ CollectReturned
    /\ c_stream.val
         = <<Ok(TextDelta("a")), Err(Transport("m2")), Ok(Done)>>
    /\ c_text = "a"
    /\ c_polled = 2
    /\ c_result = Some(Err(Transport("m2")))

(***************************************************************************)
(* Claims about the Gemini stream payloads.                                *)
(***************************************************************************)
RECURSIVE ShapeText(_)
\* the texts of the text parts, concatenated
ShapeText(parts) ==
    IF parts = <<>> THEN ""
    ELSE (IF Head(parts).kind = "text" THEN Head(parts).text ELSE "")
         \o ShapeText(Tail(parts))

RECURSIVE ShapeCalls(_)
\* the function calls of the parts, in part order
ShapeCalls(parts) ==
    IF parts = <<>> THEN <<>>
    ELSE (IF Head(parts).kind = "call" THEN <<Head(parts).call>> ELSE <<>>)
         \o ShapeCalls(Tail(parts))

\* the text of all candidates of the payload
PayloadText ==
    ShapeText(g_shape.parts) \o (IF g_shape.candidates = 2 THEN "c" ELSE "")

\* the first candidate has a finishReason field
PayloadFinished == g_shape.candidates > 0 /\ g_shape.finish # "absent"

\* C33: for each Gemini stream payload the events are emitted in the fixed
\* order TextDelta (exactly if the extracted text is non-empty), one
\* ToolCallDelta per functionCall in part order, Usage (exactly if
\* usageMetadata is present), Done (exactly if the first candidate has a
\* finishReason field, whatever its value); nothing follows Done.
C33_GeminiPayloadOrder ==
    (g_events.some /\ g_shape.json) =>
        /\ g_events.val.ok
        /\ LET ev == g_events.val.val
               calls == ShapeCalls(g_shape.parts)
               nT == IF PayloadText # "" THEN 1 ELSE 0
               nC == Len(calls)
               nU == IF g_shape.usage # "absent" THEN 1 ELSE 0
               nD == IF PayloadFinished THEN 1 ELSE 0
           IN /\ Len(ev) = nT + nC + nU + nD
              /\ nT = 1 => (ev[1].type = "TextDelta" /\ ev[1].delta = PayloadText)
              /\ \A i \in 1..nC :
                    /\ ev[nT + i].type = "ToolCallDelta"
                    /\ ev[nT + i].call_id = calls[i].id
                    /\ ev[nT + i].delta =
                          JObj([name |-> JStr(calls[i].name),
                                arguments |-> calls[i].arguments])
              /\ nU = 1 => ev[nT + nC + 1].type = "Usage"
              /\ nD = 1 => ev[Len(ev)].type = "Done"
              /\ \A i \in 1..Len(ev) : ev[i].type = "Done" => i = Len(ev)

\* a payload whose first part is a function call and whose second is a text,
\* with usageMetadata and a null finishReason: the text, the call, the
\* usage, Done
C33_Witness ==
    /\ g_events.some
    /\ g_shape.json
    /\ g_shape.candidates = 1
    /\ Len(g_shape.parts) = 2
    /\ g_shape.parts[1].kind = "call"
    /\ g_shape.parts[2] = [kind |-> "text", text |-> "a"]
    /\ g_shape.usage = "full"
    /\ g_shape.finish = "null"
    /\ Len(g_events.val.val) = 4
    /\ g_events.val.val[1] = TextDelta("a")
    /\ g_events.val.val[3] = UsageEvent(Usage(9, 2, 11))
    /\ g_events.val.val[4] = Done

(***************************************************************************)
(* Claims about the request body builders.                                 *)
(***************************************************************************)
\* the messages that are not System messages, in their order
NonSystem == SelectSeq(b_request.messages, LAMBDA m : m.role # "System")

\* the contents of the System messages, in their order
SystemContents ==
    LET ms == SelectSeq(b_request.messages, LAMBDA m : m.role = "System")
    IN [i \in 1..Len(ms) |-> ms[i].content]

\* the wire role of a canonical role
WireRole(role) ==
    IF role = "Assistant"
    THEN (IF b_provider = "anthropic" THEN "assistant" ELSE "model")
    ELSE "user"

\* the wire message list of the body
WireList ==
    IF b_provider = "anthropic"
    THEN UnwrapOr(AsArray(Get(b_body.val, "messages")), <<>>)
    ELSE UnwrapOr(AsArray(Get(b_body.val, "contents")), <<>>)

\* the text a wire message carries
WireText(m) ==
    IF b_provider = "anthropic"
    THEN AsStr(Get(UnwrapOr(AsArray(Get(m, "content")), <<JNull>>)[1], "text"))
    ELSE AsStr(Get(UnwrapOr(AsArray(Get(m, "parts")), <<JNull>>)[1], "text"))

\* the system channel of the body: its text, None when it is omitted
SystemChannel ==
    IF b_provider = "anthropic"
    THEN (IF Get(b_body.val, "system").some
          THEN AsStr(Get(b_body.val, "system")) ELSE None)
    ELSE (IF Get(b_body.val, "systemInstruction").some
          THEN AsStr(Get(
                   UnwrapOr(AsArray(GetIn(Get(b_body.val, "systemInstruction"),
                                          "parts")), <<JNull>>)[1], "text"))
          ELSE None)

\* C39: in the Anthropic and Gemini request builders the wire message list
\* is exactly the non-System messages in their original relative order, each
\* with the role assistant (Anthropic) or model (Gemini) for Assistant and
\* user for User and Tool; the system channel holds the contents of all
\* System messages in their original order joined by a blank line, and is
\* omitted when there is no System message.
C39_SystemHoisting ==
    b_body.some =>
        /\ Len(WireList) = Len(NonSystem)
        /\ \A i \in 1..Len(NonSystem) :
              /\ AsStr(Get(WireList[i], "role"))
                    = Some(WireRole(NonSystem[i].role))
              /\ WireText(WireList[i]) = Some(NonSystem[i].content)
        /\ SystemChannel =
              IF SystemContents = <<>> THEN None
              ELSE Some(JoinStr(SystemContents, "\n\n"))

\* Gemini: System, Tool, System in that order: the Tool message is the only
\* wire message, with role user, and the system channel holds both contents
\* in order
C39_Witness ==
    /\ b_provider = "gemini"
    /\ b_body.some
    /\ b_request.messages = <<Message("System", "c1"), Message("Tool", "c2"),
                              Message("System", "c3")>>
    /\ Len(WireList) = 1
    /\ AsStr(Get(WireList[1], "role")) = Some("user")
    /\ SystemChannel = Some("c1\n\nc3")

\* the generationConfig object of the body
GenerationConfig == Get(b_body.val, "generationConfig")

\* C40: for all four combinations of temperature and max_tokens being
\* present or absent, the Gemini request body has a generationConfig object
\* exactly if at least one of them is present, and that object has the key
\* temperature exactly when temperature is present and the key
\* maxOutputTokens exactly when max_tokens is present.
C40_GenerationConfig ==
    (b_provider = "gemini" /\ b_body.some) =>
        /\ GenerationConfig.some <=>
              (b_request.temperature.some \/ b_request.max_tokens.some)
        /\ GenerationConfig.some =>
              /\ Get(GenerationConfig.val, "temperature").some
                    <=> b_request.temperature.some
              /\ Get(GenerationConfig.val, "maxOutputTokens").some
                    <=> b_request.max_tokens.some

====
